---- MODULE Spec2Model ----
(***************************************************************************)
(* The deduplicating article store of src/mongodb_manager.py               *)
(* (MongoDBManager) as a state machine.  The MongoDB database is shared by *)
(* every process; each process owns one MongoDBManager and therefore one   *)
(* threading.Lock.  Every pymongo call is one atomic step of the database; *)
(* a call of add_article is the sequence of its pymongo calls, taken while *)
(* the caller's process lock is held.                                      *)
(***************************************************************************)
EXTENDS Integers, Sequences, FiniteSets, TLC

\* ------------------------------------------------------------------ bounds
MaxCalls == 2     \* add_article and start_scraper_run calls in one behaviour
MaxFaults == 1    \* pymongo calls that raise a non-duplicate-key exception
MaxCrashes == 1   \* process terminations
MaxRuns == 1      \* start_scraper_run calls
MaxTweets == 1    \* add_tweet calls started in one behaviour
MaxPuts == 2      \* uploads of a media file started in one behaviour
MaxRunOps == 2    \* update_scraper_run and end_scraper_run calls
MaxTicks == 1     \* advances of the clock datetime.now() reads
MaxBatchTweets == 2  \* tweets in the list add_tweets_batch is called with
MaxFiles == 2     \* media files scan_media_files finds
MaxGets == 4      \* get_mongodb_manager / get_twitter_manager calls

\* two caller threads; they run in one process (one MongoDBManager, one lock)
\* or in two processes sharing the database
Procs == {"p1", "p2"}
Threads == {"t1", "t2"}

Keys == {"A", "B"}        \* article urls
NoKey == ""               \* article.get('url') is None or '' : both are falsy
Sources == {"X", "Y"}     \* website_name values
NoSource == "None"        \* article.get('website_name') is None
Free == "free"            \* the lock is not held

NoStamp == -1             \* the dictionary has no 'scraped_at' key

\* the article dictionaries the callers submit (url, website_name); none has a
\* 'scraped_at' yet
Submitted == {[url |-> "A", website_name |-> "X", scraped_at |-> NoStamp],
              [url |-> "B", website_name |-> "Y", scraped_at |-> NoStamp],
              [url |-> "B", website_name |-> NoSource, scraped_at |-> NoStamp]}
NoUrlArticle == [url |-> NoKey, website_name |-> NoSource, scraped_at |-> NoStamp]
Urls == Keys \cup {NoKey}

NoId == ""                \* tweet.get(...) is None, '' or 0: all are falsy
NoMedia == "none"         \* has_media is falsy or media_files is empty
Usernames == {"u"}
NoUser == "None"          \* neither 'username' nor 'original_author'
Keywords == {"k"}
NoKeyword == "None"       \* tweet.get('keyword') is None
NoFile == 0               \* no GridFS file id
Contents == {"m", "n"}    \* the bytes of a media file
NoMd5 == <<"md5">>        \* a file document without an md5 field
Tags == {"T", "U"}        \* the filename or the owning tweet id of an upload

\* the three entry points that upload a media file: MediaUploader and
\* SimpleMediaUploader each run as a script of their own, and
\* TwitterMongoManager.upload_media_file runs in the application
Uploaders == {"MediaUploader", "SimpleMediaUploader", "TwitterMongoManager"}

\* the entry points that keep self.stats['duplicates_detected']
Counting == {"MediaUploader", "SimpleMediaUploader"}

\* the tweet dictionaries add_tweet is called with: the id under 'tweet_id' or
\* under 'id', with and without a media file, and one with no id at all
TweetsSubmitted ==
    {[tweet_id |-> "T", id |-> NoId, media |-> NoMedia, username |-> "u",
      keyword |-> NoKeyword],
     [tweet_id |-> NoId, id |-> "T", media |-> "m", username |-> NoUser,
      keyword |-> "k"],
     [tweet_id |-> NoId, id |-> NoId, media |-> "m", username |-> "u",
      keyword |-> "k"]}

\* the one article, url and tweets (one without media, one with a media file)
\* that the calls of the lock runs are made with: the second call with the
\* same one is a duplicate
LiveArticle == [url |-> "A", website_name |-> "X", scraped_at |-> NoStamp]
LiveUrl == "A"
LiveTweet == [tweet_id |-> "T", id |-> NoId, media |-> NoMedia, username |-> "u",
              keyword |-> NoKeyword]
MediaTweet == [tweet_id |-> NoId, id |-> "T", media |-> "m", username |-> NoUser,
               keyword |-> "k"]

\* ------------------------------------------------------- collections (pymongo)
\* A collection is the sequence of its documents in insertion order.

CountUrl(coll, u) == Cardinality({i \in 1..Len(coll) : coll[i].url = u})

\* a lookup that finds nothing
HasUrlNever(coll, u) == FALSE

\* count_documents({'url': url}, limit=1) > 0
HasUrl(coll, u) == \E i \in 1..Len(coll) : coll[i].url = u

\* a count that is not taken
CountNothing(coll) == 0

\* count_documents({})
CountDocuments(coll) == Len(coll)

\* mutant: the collection has no unique index
NoUniqueIndex(coll, doc) == FALSE

\* the unique index on 'url' rejects a second document with the same url
DuplicateKey(coll, doc) == HasUrl(coll, doc.url)

\* insert_one on a collection with the unique url index; the caller has
\* established ~DuplicateKey(coll, doc)
InsertOne(coll, doc) == Append(coll, doc)

FirstMatch(coll, u) == CHOOSE i \in 1..Len(coll) :
                          /\ coll[i].url = u
                          /\ \A j \in 1..(i - 1) : coll[j].url # u

\* mutant: the update sets last_seen and forgets the '$inc'
TouchSeenNoInc(coll, u, at) == coll

\* update_one({'url': url}, {'$set': {'last_seen': now}, '$inc': {'seen_count': 1}})
\* without upsert: the first matching document is updated, none is created
TouchSeen(coll, u, at) ==
    IF HasUrl(coll, u)
    THEN [coll EXCEPT ![FirstMatch(coll, u)] =
             [@ EXCEPT !.last_seen = at, !.seen_count = @ + 1]]
    ELSE coll

\* the seen_entry dictionary of _add_to_seen_urls (lines 267-273); first and
\* last are what the two datetime.now() calls of lines 269 and 270 returned
SeenEntry(u, s, first, last) ==
    [url |-> u, first_seen |-> first, last_seen |-> last, source |-> s,
     seen_count |-> 1]

\* mutant: the entry is built and never inserted
RecordSeenDropped(coll, u, s, first, last) == coll

\* _add_to_seen_urls: insert the entry; the DuplicateKeyError of the ledger's
\* unique index is passed over
RecordSeen(coll, u, s, first, last) ==
    IF DuplicateKey(coll, SeenEntry(u, s, first, last))
    THEN coll
    ELSE InsertOne(coll, SeenEntry(u, s, first, last))

\* what seen_urls_collection.insert_one(seen_entry) raises (line 274)
InsertOneRaises(coll, doc) ==
    IF DuplicateKey(coll, doc) THEN "DuplicateKeyError" ELSE "nothing"

\* the except clauses of _add_to_seen_urls (lines 275-279)
SeenUrlsCaught == {"DuplicateKeyError", "Exception"}

\* an exception leaves _add_to_seen_urls
AddToSeenUrlsRaises(coll, u, s, first, last) ==
    InsertOneRaises(coll, SeenEntry(u, s, first, last))
        \notin SeenUrlsCaught \cup {"nothing"}

\* --------------------------------------------------------------- stats register
ZeroSources == [s \in Sources |-> [articles |-> 0, duplicates |-> 0]]

\* the initial_stats dictionary of _initialize_stats; an absent counter reads 0
InitialStats == [total_articles |-> 0, total_duplicates |-> 0,
                 total_scraper_runs |-> 0, sources |-> ZeroSources]

\* mutant: 'if added > 0' left out, the total is never incremented
IncStatsNoTotal(doc, added, duplicates, source) ==
    [doc EXCEPT
       !.total_duplicates = IF duplicates > 0 THEN @ + duplicates ELSE @,
       !.sources = [s \in Sources |->
                      [articles |-> IF s = source /\ added > 0
                                    THEN @[s].articles + added ELSE @[s].articles,
                       duplicates |-> IF s = source /\ duplicates > 0
                                      THEN @[s].duplicates + duplicates
                                      ELSE @[s].duplicates]]]

\* mutant: the per-source increment ignores which source was given
IncStatsEverySource(doc, added, duplicates, source) ==
    [doc EXCEPT
       !.total_articles = IF added > 0 THEN @ + added ELSE @,
       !.total_duplicates = IF duplicates > 0 THEN @ + duplicates ELSE @,
       !.sources = [s \in Sources |->
                      [articles |-> IF added > 0
                                    THEN @[s].articles + added ELSE @[s].articles,
                       duplicates |-> IF duplicates > 0
                                      THEN @[s].duplicates + duplicates
                                      ELSE @[s].duplicates]]]

\* the '$inc' part of update_dict in _update_stats applied to one document
IncStats(doc, added, duplicates, source) ==
    [doc EXCEPT
       !.total_articles = IF added > 0 THEN @ + added ELSE @,
       !.total_duplicates = IF duplicates > 0 THEN @ + duplicates ELSE @,
       !.sources = [s \in Sources |->
                      [articles |-> IF s = source /\ source # NoSource /\ added > 0
                                    THEN @[s].articles + added ELSE @[s].articles,
                       duplicates |-> IF s = source /\ source # NoSource /\ duplicates > 0
                                      THEN @[s].duplicates + duplicates
                                      ELSE @[s].duplicates]]]

\* an update that replaces the counters by the increment instead of adding it
UpdateStatsReplace(coll, added, duplicates, source) ==
    <<IncStats(InitialStats, added, duplicates, source)>>

\* stats_collection.update_one({}, update_dict, upsert=True): the first document
\* in natural order is updated; with no document one is created from the update
UpdateStats(coll, added, duplicates, source) ==
    IF coll = <<>>
    THEN <<IncStats(InitialStats, added, duplicates, source)>>
    ELSE [coll EXCEPT ![1] = IncStats(@, added, duplicates, source)]

\* _initialize_stats: insert the initial document when the collection is empty
InitializeStats(coll) == IF Len(coll) = 0 THEN <<InitialStats>> ELSE coll

\* stats_collection.update_one({}, {'$inc': {'total_scraper_runs': 1}}, upsert=True)
IncRuns(coll) ==
    IF coll = <<>>
    THEN <<[InitialStats EXCEPT !.total_scraper_runs = 1]>>
    ELSE [coll EXCEPT ![1].total_scraper_runs = @ + 1]

\* ------------------------------------------------------------------ scraper runs
RunStatuses == {"running", "completed", "failed"}
FinalStatuses == {"completed", "failed"}
NoStatus == "None"        \* status: Optional[str] = None
Deltas == {-1, 0, 1}      \* the articles, duplicates and errors arguments

\* lines 446-453: run_doc of start_scraper_run; ended_at is not set yet
NewRun(source) ==
    [status |-> "running", source |-> source, articles_scraped |-> 0,
     duplicates_found |-> 0, errors |-> 0, ended |-> FALSE]

\* a counter argument that goes into '$inc' whatever its sign
IncAlways(v, d) == v + d

\* lines 483-488, 'if articles > 0:': only a positive argument goes into '$inc'
IncIfPositive(v, d) == IF d > 0 THEN v + d ELSE v

\* lines 481-496: the update update_scraper_run sends for the run
UpdateRunDoc(run, a, d, e, st) ==
    [run EXCEPT !.articles_scraped = IncIfPositive(@, a),
                !.duplicates_found = IncIfPositive(@, d),
                !.errors = IncIfPositive(@, e),
                !.status = IF st # NoStatus THEN st ELSE @]

\* lines 509-517: end_scraper_run sets status and ended_at
EndRunDoc(run, st) == [run EXCEPT !.status = st, !.ended = TRUE]

\* the difference of two stats documents, counter by counter
StatsDiff(new, old) ==
    [total_articles |-> new.total_articles - old.total_articles,
     total_duplicates |-> new.total_duplicates - old.total_duplicates,
     sources |-> [s \in Sources |->
                    [articles |-> new.sources[s].articles - old.sources[s].articles,
                     duplicates |-> new.sources[s].duplicates
                                      - old.sources[s].duplicates]]]

ZeroDiff == StatsDiff(InitialStats, InitialStats)

\* the document update_one({}) addresses, or the zero document when none exists
StatsDoc(coll) == IF coll = <<>> THEN InitialStats ELSE coll[1]

\* ------------------------------------------------------- twitter collections
\* add_tweet line 117: tweet.get('tweet_id') or tweet.get('id')
TweetId(tw) == IF tw.tweet_id # NoId THEN tw.tweet_id ELSE tw.id

\* add_tweet line 119, 'if not tweet_id:'
MissingId(tw) == TweetId(tw) = NoId

HasTweet(coll, id) == \E i \in 1..Len(coll) : coll[i].tweet_id = id

\* a tweets collection without the unique index: insert_one never raises
NoTweetIndex(coll, doc) == FALSE

\* the unique index on tweet_id (line 82) makes insert_one raise
\* DuplicateKeyError when a tweet with that id is stored
DuplicateTweetKey(coll, doc) == HasTweet(coll, doc.tweet_id)

\* hashlib.md5(content).hexdigest() (line 390)
Md5(content) == <<"md5", content>>

\* find_one that returns the first stored file whatever its digest
FindAnyFile(files, h) == IF Len(files) > 0 THEN files[1]._id ELSE NoFile

\* gridfs.find_one({"md5": file_hash}) (line 393): the id of a stored file
\* with that digest, or NoFile
FindByMd5(files, h) ==
    IF \E i \in 1..Len(files) : files[i].md5 = h
    THEN files[CHOOSE i \in 1..Len(files) :
                 /\ files[i].md5 = h
                 /\ \A j \in 1..(i - 1) : files[j].md5 # h]._id
    ELSE NoFile

\* gridfs.put(content, ..., tweet_id=tweet_id, ...) (lines 404-412): no md5
\* keyword is passed, so the file document has an md5 field only when the
\* GridFS driver computes one (keeps)
GridFsPut(files, content, id, keeps) ==
    Append(files, [_id |-> Len(files) + 1,
                   md5 |-> IF keeps THEN Md5(content) ELSE NoMd5,
                   content |-> content, tweet_id |-> id])

\* ---------------------------------------------------------------- get_media_file
Malformed == -1           \* stands for a string ObjectId() rejects with InvalidId
None == [none |-> TRUE]   \* Python's None

\* the arguments get_media_file is called with: the ids of stored files, ids
\* of files that are not stored, and a malformed one
FileRefs == (1..(MaxPuts + 1)) \cup {Malformed}

\* why a call ends as it does: ObjectId(gridfs_id) raises InvalidId, the read
\* raises a storage error (fails), gridfs.get raises NoFile, or the file is read
GetCause(files, ref, fails) ==
    IF ref = Malformed THEN "malformed"
    ELSE IF fails THEN "storage"
    ELSE IF ref \notin 1..Len(files) THEN "absent"
    ELSE "ok"

\* lines 431-444: the dictionary of the file, or None from 'except Exception'
GetMediaFile(files, ref, fails) ==
    IF GetCause(files, ref, fails) = "ok"
    THEN [content |-> files[ref].content, tweet_id |-> files[ref].tweet_id]
    ELSE None

\* lines 504-506: serve_media_from_gridfs returns None when get_media_file did
ServeMediaFromGridfs(files, ref, fails) ==
    IF GetMediaFile(files, ref, fails) = None THEN None
    ELSE [response |-> GetMediaFile(files, ref, fails).content]

\* an uploader that is not inside a call
IdleUpload == [pc |-> "idle", content |-> "m", tag |-> "T", ref |-> NoFile,
               found |-> FALSE, put |-> FALSE, duplicates_detected |-> 0,
               before |-> 0, files_uploaded |-> 0]

\* the number of stored files with the bytes c
Blobs(files, c) == Cardinality({i \in 1..Len(files) : files[i].content = c})

\* _initialize_stats of the twitter manager (lines 93-105)
InitialTwitterStats ==
    [total_tweets |-> 0, total_keywords_searches |-> 0,
     users |-> [u \in Usernames |-> 0], keywords |-> [k \in Keywords |-> 0]]

\* _update_stats(tweets=1, username, keyword) (lines 322-341) on the document
IncTwitterStats(doc, username, keyword) ==
    [total_tweets |-> doc.total_tweets + 1,
     total_keywords_searches |->
        doc.total_keywords_searches + (IF keyword # NoKeyword THEN 1 ELSE 0),
     users |-> [u \in Usernames |->
                  doc.users[u] + (IF u = username THEN 1 ELSE 0)],
     keywords |-> [k \in Keywords |->
                     doc.keywords[k] + (IF k = keyword THEN 1 ELSE 0)]]

\* update_one({}, ..., upsert=True) on twitter_stats (line 341)
UpdateTwitterStats(coll, username, keyword) ==
    IF coll = <<>>
    THEN <<IncTwitterStats(InitialTwitterStats, username, keyword)>>
    ELSE [coll EXCEPT ![1] = IncTwitterStats(coll[1], username, keyword)]

\* ------------------------------------------------------------ add_articles_batch
\* lines 238-244: the 'results' dictionary before the loop
NewResults(items) ==
    [total |-> Len(items), added |-> 0, duplicates |-> 0, errors |-> 0,
     duplicate_urls |-> <<>>]

\* the loop body with the else branch counting nothing
TallyNoErrors(results, st, url) ==
    IF st = "success" THEN [results EXCEPT !.added = @ + 1]
    ELSE IF st = "duplicate"
         THEN [results EXCEPT !.duplicates = @ + 1,
                              !.duplicate_urls = Append(@, url)]
    ELSE results

\* lines 249-255: the result of one add_article call is counted
Tally(results, st, url) ==
    IF st = "success" THEN [results EXCEPT !.added = @ + 1]
    ELSE IF st = "duplicate"
         THEN [results EXCEPT !.duplicates = @ + 1,
                              !.duplicate_urls = Append(@, url)]
    ELSE [results EXCEPT !.errors = @ + 1]

\* no add_articles_batch call has been made
NoBatch == [by |-> "nobody", items |-> <<>>, i |-> 0, running |-> FALSE,
            results |-> NewResults(<<>>), outs |-> <<>>]

\* the lists of at most n articles add_articles_batch is called with
BatchLists(n) == UNION {[1..k -> Submitted \cup {NoUrlArticle}] : k \in 0..n}

\* no _add_to_seen_urls call has been made on its own
NoRecord == [url |-> NoKey, had |-> FALSE, at |-> 0, raised |-> FALSE]

\* the increments applied to the register when none has been
NoIncrements == [articles |-> 0, duplicates |-> 0, runs |-> 0,
                 by_source |-> [s \in Sources |-> 0]]

\* backup_database has not been called: there is no backup file, the store is
\* the one the items went into, and merge_old_json_files has returned nothing
NoBackup == [taken |-> FALSE, name |-> "none", articles |-> <<>>,
             store |-> "same", calls |-> 0, merging |-> FALSE,
             merged |-> [same |-> None, empty |-> None]]

\* an export whose documents have lost their url
ExportNoUrl(coll) ==
    [i \in 1..Len(coll) |->
        [url |-> NoKey, website_name |-> coll[i].website_name,
         scraped_at |-> coll[i].scraped_at]]

\* lines 554-567: list(articles_collection.find({}, {'_id': 0})) written under
\* 'articles' by json.dump and read back by json.load (line 600): every
\* document with its fields, in the order of the collection
Export(coll) ==
    [i \in 1..Len(coll) |->
        [url |-> coll[i].url, website_name |-> coll[i].website_name,
         scraped_at |-> coll[i].scraped_at]]

\* line 592: filename.endswith('.json') and 'scraped_articles' in filename
Selected(name) == name = "scraped_articles.json"

\* no thread has called get_mongodb_manager or get_twitter_manager, and the
\* module's _instance is None (0); constructed managers are numbered from 1
NoSingle == [instance |-> 0, built |-> 0, runs |-> 0, lock |-> Free,
             pc |-> [t \in Threads |-> "idle"],
             got |-> [t \in Threads |-> 0],
             waited |-> [t \in Threads |-> FALSE], gets |-> 0]

\* add_tweets_batch lines 181-186: the 'results' dictionary before the loop
NewTweetResults(items) ==
    [total |-> Len(items), added |-> 0, duplicates |-> 0, errors |-> 0]

\* add_tweets_batch lines 189-197: the result of one add_tweet call is counted
TallyTweet(results, st) ==
    IF st = "success" THEN [results EXCEPT !.added = @ + 1]
    ELSE IF st = "duplicate" THEN [results EXCEPT !.duplicates = @ + 1]
    ELSE [results EXCEPT !.errors = @ + 1]

\* no add_tweets_batch call has been made
NoTweetBatch == [by |-> "nobody", items |-> <<>>, i |-> 0, running |-> FALSE,
                 preset |-> NoFile,
                 results |-> NewTweetResults(<<>>)]

DryRunId == -2            \* the string "dry_run_id"

\* MediaUploader.__init__ lines 51-59: self.stats, all zero
ZeroUploadStats ==
    [files_found |-> 0, files_uploaded |-> 0, files_skipped |-> 0,
     files_failed |-> 0, total_size_uploaded |-> 0, duplicates_detected |-> 0]

\* the script before upload_all_media is called
IdleScript == [pc |-> "idle", kind |-> "MediaUploader", dry_run |-> FALSE,
               files |-> <<>>, i |-> 0,
               mappings |-> [c \in Contents |-> NoFile], wrote |-> {},
               stats |-> ZeroUploadStats]

VARIABLES
    proc,         \* proc[t]: the process thread t runs in
    articles,     \* articles collection: <<[url, website_name]>>
    seen,         \* seen_urls collection: <<[url, source, seen_count]>>
    stats,        \* stats collection: <<stats document>>
    runs,         \* scraper_runs collection
    lock,         \* lock[p]: the thread holding self.lock of process p, or Free
    pc,           \* pc[t]: where thread t is inside add_article
    article,      \* article[t]: the dictionary thread t submitted
    status,       \* status[t]: the 'status' of the dictionary last returned to t
    reason,       \* reason[t]: its 'reason'
    via,          \* via[t]: which duplicate path the call took
    total,        \* total[t]: its 'total_articles'
    delta,        \* delta[t]: what the call's stats update added to the register
    wrote,        \* wrote[t]: the collections the call has written
    faulted,      \* faulted[t]: a pymongo call of the call raised
    orphanAtCall, \* orphanAtCall[t]: the call began with the item stored, no entry
    outcomes,     \* outcomes[k]: calls returned per status for key k
    lostStats,    \* item increments of the register dropped by lines 320-321
    calls, faults, crashes,
    xrace,        \* two processes were inside the critical section together
    tweets,        \* tweets collection: <<[tweet_id, username, keyword, media_files_gridfs]>>
    twitter_stats, \* twitter_stats collection: <<stats document>>
    gridfs,        \* the GridFS files: <<[_id, md5, tweet_id]>>
    tlock,         \* tlock[p]: the thread holding the twitter manager's lock of p
    tpc,           \* tpc[t]: where thread t is inside add_tweet
    tweet,         \* tweet[t]: the tweet dictionary thread t submitted
    tstatus,       \* tstatus[t]: the 'status' add_tweet last returned to t
    treason,       \* treason[t]: its 'reason'
    twrote,        \* twrote[t]: what the add_tweet call has written
    tcalls,        \* add_tweet calls started
    uploads,       \* uploads[u]: the upload call of entry point u and its counters
    driverMd5,     \* the GridFS driver in use writes an md5 field on put
    refs,          \* refs[c]: the file ids uploads of the bytes c have returned
    overlap,       \* an upload has started while another one was running
    puts,          \* uploads started
    lastRead,      \* the last read operation: its name, argument and result;
                   \* seq flips at every read
    runOp,         \* the last update_scraper_run or end_scraper_run call
    runOps,        \* update_scraper_run and end_scraper_run calls made
    got,           \* the last get_media_file call: its argument, why it ended
                   \* as it did, and what it returned
    batch,         \* the add_articles_batch call: its caller, list, loop index,
                   \* 'results' dictionary, and what each of its calls did
    now,           \* what datetime.now() returns
    rec,           \* the last _add_to_seen_urls call made on its own
    applied,       \* the increments the stats updates have applied so far
    backup,        \* the file backup_database wrote, and where it was imported
    boot,          \* boot[p]: where the MongoDBManager under construction in
                   \* process p is inside _initialize_stats
    single,        \* the module's _instance and _instance_lock, and the
                   \* get_..._manager call of each thread
    tbatch,        \* the add_tweets_batch call: caller, list, loop index, 'results'
    script,        \* the MediaUploader script: its dry_run flag, its place in
                   \* upload_all_media, its mappings and self.stats
    touts          \* add_tweet calls returned from the 'with' block, per status

vars == <<proc, articles, seen, stats, runs, lock, pc, article, status, reason, via,
          total, delta, wrote, faulted, orphanAtCall, outcomes, lostStats, calls,
          faults, crashes, xrace, tweets, twitter_stats, gridfs, tlock, tpc, tweet,
          tstatus, treason, twrote, tcalls, uploads, driverMd5, refs, overlap,
          puts, got, runOp, runOps, lastRead, batch, now, rec, applied, backup,
          boot, single, tbatch, script, touts>>

\* what the operations on the articles, tweets and files leave alone
aux == <<boot, single, tbatch, script, touts>>

runv == <<runOp, runOps, lastRead>>

blobv == <<uploads, driverMd5, refs, overlap, puts, got>>

twitter == <<tweets, twitter_stats, gridfs, tlock, tpc, tweet, tstatus, treason,
             twrote, tcalls>>
articlev == <<proc, articles, seen, stats, runs, lock, pc, article, status, reason,
              via, total, delta, wrote, faulted, orphanAtCall, outcomes, lostStats,
              calls, faults, crashes, xrace, batch>>
\* articlev without the ledger
articlev2 == <<proc, articles, stats, runs, lock, pc, article, status, reason, via,
               total, delta, wrote, faulted, orphanAtCall, outcomes, lostStats,
               calls, faults, crashes, xrace>>
store == <<articles, seen, stats, runs>>
ghost == <<lostStats, calls, faults, crashes, xrace>>

callv == <<article, status, reason, via, total, delta, wrote, faulted, orphanAtCall>>

ProcOf(t) == proc[t]

\* add_article and start_scraper_run calls started so far
Started == calls + Len(runs)

\* the collections of a database nothing was written to, and no call made
InitEmpty ==
    /\ proc \in {f \in [Threads -> Procs] : f["t1"] = "p1"}
    /\ articles = <<>>
    /\ seen = <<>>
    /\ runs = <<>>
    /\ lock = [p \in Procs |-> Free]
    /\ pc = [t \in Threads |-> "idle"]
    /\ article = [t \in Threads |-> NoUrlArticle]
    /\ status = [t \in Threads |-> "none"]
    /\ reason = [t \in Threads |-> ""]
    /\ via = [t \in Threads |-> ""]
    /\ total = [t \in Threads |-> 0]
    /\ delta = [t \in Threads |-> ZeroDiff]
    /\ wrote = [t \in Threads |-> {}]
    /\ faulted = [t \in Threads |-> FALSE]
    /\ orphanAtCall = [t \in Threads |-> FALSE]
    /\ outcomes = [k \in Urls |-> [success |-> 0, duplicate |-> 0, error |-> 0]]
    /\ lostStats = 0
    /\ calls = 0
    /\ faults = 0
    /\ crashes = 0
    /\ xrace = FALSE
    /\ tweets = <<>>
    /\ twitter_stats = <<InitialTwitterStats>>
    /\ gridfs = <<>>
    /\ tlock = [p \in Procs |-> Free]
    /\ tpc = [t \in Threads |-> "idle"]
    /\ tweet = [t \in Threads |->
                  [tweet_id |-> NoId, id |-> NoId, media |-> NoMedia,
                   username |-> NoUser, keyword |-> NoKeyword, file |-> NoFile]]
    /\ tstatus = [t \in Threads |-> "none"]
    /\ treason = [t \in Threads |-> ""]
    /\ twrote = [t \in Threads |-> {}]
    /\ tcalls = 0
    /\ batch = NoBatch
    /\ uploads = [u \in Uploaders |-> IdleUpload]
    /\ refs = [c \in Contents |-> {}]
    /\ overlap = FALSE
    /\ puts = 0
    /\ runOp = [op |-> "none", id |-> 0, negative |-> FALSE, positive |-> FALSE]
    /\ runOps = 0
    /\ lastRead = [seq |-> FALSE, op |-> "none", arg |-> NoKey, result |-> None]
    /\ got = [ref |-> NoFile, cause |-> "none", result |-> None]
    /\ now = 0
    /\ rec = NoRecord
    /\ applied = NoIncrements
    /\ backup = NoBackup
    /\ single = NoSingle
    /\ tbatch = NoTweetBatch
    /\ script = IdleScript
    /\ touts = [success |-> 0, duplicate |-> 0, error |-> 0]

\* the managers of both processes are constructed, one after the other:
\* _initialize_stats (lines 130-141) has inserted the stats document
InitStore ==
    /\ InitEmpty
    /\ stats = InitializeStats(<<>>)
    /\ boot = [p \in Procs |-> "up"]

\* a database no manager has been constructed on yet: the stats collection
\* is empty and each process is about to construct its MongoDBManager
InitFresh ==
    /\ InitEmpty
    /\ stats = <<>>
    /\ boot = [p \in Procs |-> "down"]
    /\ driverMd5 = TRUE
    /\ proc["t2"] = "p2"

\* the stores as the managers' __init__ leave them, with a GridFS driver that
\* writes the md5 field
Init == InitStore /\ driverMd5 = TRUE

\* the same with either kind of GridFS driver: the code passes no md5 to
\* gridfs.put and the repository pins no driver version
InitBlobs == InitStore /\ driverMd5 \in BOOLEAN

\* ------------------------------------------------------------------ add_article
\* a return that leaves the lock with the thread that took it
KeepLock(t) == lock

\* leaving the 'with self.lock:' block releases the lock of the caller's process
Release(t) == [lock EXCEPT ![ProcOf(t)] = Free]

\* 'return {...}' inside the with block: the lock is released, the caller has
\* the dictionary, and the outcome is counted for the submitted url
Return(t, st, rs, tot) ==
    /\ pc' = [pc EXCEPT ![t] = "idle"]
    /\ status' = [status EXCEPT ![t] = st]
    /\ reason' = [reason EXCEPT ![t] = rs]
    /\ total' = [total EXCEPT ![t] = tot]
    /\ lock' = Release(t)
    /\ outcomes' = [outcomes EXCEPT ![article[t].url][st] = @ + 1]

\* a pymongo call raises an exception other than DuplicateKeyError
Raise(t) ==
    /\ faults < MaxFaults
    /\ faults' = faults + 1
    /\ faulted' = [faulted EXCEPT ![t] = TRUE]

\* the item of u is stored, its SeenEntry is missing, and no call is between
\* the item insert and the ledger write: nothing will write the entry any more
Orphan(u) ==
    /\ HasUrl(articles, u)
    /\ ~HasUrl(seen, u)
    /\ \A t \in Threads : ~(pc[t] = "seen" /\ article[t].url = u)

\* add_article without the test of line 171
MissingUrlUnchecked(u) == FALSE

\* line 171, 'if not url:': a missing url and an empty one are both falsy
MissingUrl(u) == u = NoKey

\* lines 169-175: a call without a url returns {'status': 'error', 'reason':
\* 'missing_url'} at once; any other call goes on to 'with self.lock:'
SubmitArticle(t, a) ==
    /\ article' = [article EXCEPT ![t] = a]
    /\ IF MissingUrl(a.url)
       THEN /\ status' = [status EXCEPT ![t] = "error"]
            /\ reason' = [reason EXCEPT ![t] = "missing_url"]
            /\ orphanAtCall' = [orphanAtCall EXCEPT ![t] = FALSE]
            /\ outcomes' = [outcomes EXCEPT ![a.url].error = @ + 1]
            /\ pc' = pc
       ELSE /\ status' = [status EXCEPT ![t] = "pending"]
            /\ reason' = [reason EXCEPT ![t] = ""]
            /\ orphanAtCall' = [orphanAtCall EXCEPT ![t] = Orphan(a.url)]
            /\ outcomes' = outcomes
            /\ pc' = [pc EXCEPT ![t] = "lock"]
    /\ via' = [via EXCEPT ![t] = ""]
    /\ total' = [total EXCEPT ![t] = 0]
    /\ delta' = [delta EXCEPT ![t] = ZeroDiff]
    /\ wrote' = [wrote EXCEPT ![t] = {}]
    /\ faulted' = [faulted EXCEPT ![t] = FALSE]
    /\ UNCHANGED <<aux, now, rec, applied, backup, twitter, blobv, runv, proc, store, lock, lostStats, faults, crashes, xrace>>

\* add_article called on its own, by a thread that is not inside a batch
AddArticle(t) ==
    /\ pc[t] = "idle"
    /\ tpc[t] = "idle"
    /\ ~(batch.running /\ batch.by = t)
    /\ Started < MaxCalls
    /\ calls' = calls + 1
    /\ batch' = batch
    /\ \E a \in Submitted \cup {NoUrlArticle} : SubmitArticle(t, a)

\* add_article(a) called on its own with the article a
AddArticleOf(t, a) ==
    /\ pc[t] = "idle"
    /\ tpc[t] = "idle"
    /\ ~(batch.running /\ batch.by = t)
    /\ Started < MaxCalls
    /\ calls' = calls + 1
    /\ batch' = batch
    /\ SubmitArticle(t, a)

\* lines 228-244: add_articles_batch(articles) builds 'results'; the calls of
\* its loop are taken from the budget of calls when the batch starts
AddArticlesBatch(t) ==
    /\ pc[t] = "idle"
    /\ tpc[t] = "idle"
    /\ batch.by = "nobody"
    /\ \E items \in BatchLists(MaxCalls - Started) :
        /\ calls' = calls + Len(items)
        /\ batch' = [by |-> t, items |-> items, i |-> 0, running |-> TRUE,
                     results |-> NewResults(items), outs |-> <<>>]
    /\ UNCHANGED <<aux, now, rec, applied, backup, twitter, blobv, runv, proc, store, lock, pc, callv, outcomes, lostStats,
                   faults, crashes, xrace>>

\* lines 246-262: one turn of 'for article in articles:'. The result of the
\* call that has returned is counted, then add_article is called with the
\* next article, or the loop is over and 'results' is returned.
BatchLoop(t) ==
    /\ batch.running
    /\ batch.by = t
    /\ pc[t] = "idle"
    /\ LET counted ==
             IF batch.i = 0 THEN batch
             ELSE [batch EXCEPT
                     !.results = Tally(@, status[t], article[t].url),
                     !.outs = Append(@, [status |-> status[t],
                                         inserted |-> "articles" \in wrote[t],
                                         faulted |-> faulted[t]])]
       IN  IF batch.i < Len(batch.items)
           THEN /\ SubmitArticle(t, batch.items[batch.i + 1])
                /\ batch' = [counted EXCEPT !.i = @ + 1]
                /\ calls' = calls
           ELSE /\ batch' = [counted EXCEPT !.running = FALSE]
                /\ UNCHANGED <<aux, now, rec, applied, backup, twitter, blobv, runv, proc, store, lock, pc, callv, outcomes,
                               ghost>>

\* a 'with' block that is entered whoever holds the lock
AcquireUnlocked(t) ==
    /\ pc[t] = "lock"
    /\ lock' = [lock EXCEPT ![ProcOf(t)] = t]
    /\ pc' = [pc EXCEPT ![t] = "check"]
    /\ xrace' = (xrace \/ \E q \in Procs \ {ProcOf(t)} : lock[q] # Free)
    /\ UNCHANGED <<aux, now, rec, applied, backup, twitter, blobv, runv, batch, proc, store,
                   callv, outcomes, lostStats, calls, faults, crashes>>

\* line 175: threading.Lock.acquire blocks until the process's lock is free
Acquire(t) ==
    /\ pc[t] = "lock"
    /\ lock[ProcOf(t)] = Free
    /\ lock' = [lock EXCEPT ![ProcOf(t)] = t]
    /\ pc' = [pc EXCEPT ![t] = "check"]
    /\ xrace' = (xrace \/ \E q \in Procs \ {ProcOf(t)} : lock[q] # Free)
    /\ UNCHANGED <<aux, now, rec, applied, backup, twitter, blobv, runv, batch, proc, store, callv, outcomes, lostStats, calls, faults, crashes>>

\* an add_article that makes its ledger check by calling is_duplicate, which
\* enters 'with self.lock:' itself
CheckSeenByIsDuplicate(t) ==
    /\ pc[t] = "check"
    /\ pc' = [pc EXCEPT ![t] = "rlock"]
    /\ UNCHANGED <<aux, now, rec, applied, backup, twitter, blobv, runv, batch, proc, store,
                   lock, callv, outcomes, ghost>>

\* line 178: is_dup = seen_urls.count_documents({'url': url}, limit=1) > 0,
\* made in add_article itself, not through is_duplicate
CheckSeen(t) ==
    /\ pc[t] = "check"
    /\ IF HasUrl(seen, article[t].url)
       THEN /\ pc' = [pc EXCEPT ![t] = "track"]
            /\ via' = [via EXCEPT ![t] = "ledger"]
       ELSE /\ pc' = [pc EXCEPT ![t] = "insert"]
            /\ via' = via
    /\ UNCHANGED <<aux, now, rec, applied, backup, twitter, blobv, runv, batch, proc, store, lock, article, status, reason, total, delta, wrote,
                   faulted, orphanAtCall, outcomes, ghost>>

\* line 178 raises: lines 224-226 return {'status': 'error', 'reason': str(e)}
CheckSeenFails(t) ==
    /\ pc[t] = "check"
    /\ Raise(t)
    /\ Return(t, "error", "storage", 0)
    /\ UNCHANGED <<aux, now, rec, applied, backup, twitter, blobv, runv, batch, proc, store, article, via, delta, wrote, orphanAtCall, lostStats,
                   calls, crashes, xrace>>

\* lines 190-191: a dictionary without 'scraped_at' gets the time of the call
Stamp(a, at) == IF a.scraped_at = NoStamp THEN [a EXCEPT !.scraped_at = at] ELSE a

\* an add_article that writes the ledger entry without having inserted the item
InsertArticleSkipped(t) ==
    /\ pc[t] = "insert"
    /\ seen' = RecordSeen(seen, article[t].url, article[t].website_name, now, now)
    /\ pc' = [pc EXCEPT ![t] = "stats"]
    /\ UNCHANGED <<aux, now, rec, applied, backup, twitter, blobv, runv, batch, proc,
                   articles, stats, runs, lock, callv, outcomes, ghost>>

\* lines 190-194: the dictionary is stamped, then
\* articles_collection.insert_one(article); the unique index on url makes it
\* raise DuplicateKeyError (lines 213-216) when the url is stored
InsertArticle(t) ==
    /\ pc[t] = "insert"
    /\ article' = [article EXCEPT ![t] = Stamp(@, now)]
    /\ IF DuplicateKey(articles, article'[t])
       THEN /\ articles' = articles
            /\ pc' = [pc EXCEPT ![t] = "track"]
            /\ via' = [via EXCEPT ![t] = "index"]
            /\ wrote' = wrote
       ELSE /\ articles' = InsertOne(articles, article'[t])
            /\ pc' = [pc EXCEPT ![t] = "seen"]
            /\ via' = via
            /\ wrote' = [wrote EXCEPT ![t] = @ \cup {"articles"}]
    /\ UNCHANGED <<aux, now, rec, applied, backup, twitter, blobv, runv, batch, proc, seen, stats, runs, lock, status, reason, total, delta,
                   faulted, orphanAtCall, outcomes, ghost>>

\* line 194 raises another exception: lines 224-226
InsertArticleFails(t) ==
    /\ pc[t] = "insert"
    /\ article' = [article EXCEPT ![t] = Stamp(@, now)]
    /\ Raise(t)
    /\ Return(t, "error", "storage", 0)
    /\ UNCHANGED <<aux, now, rec, applied, backup, twitter, blobv, runv, batch, proc, store, via, delta, wrote, orphanAtCall, lostStats,
                   calls, crashes, xrace>>

\* line 197: self._add_to_seen_urls(url, article.get('website_name'))
AddToSeenUrls(t) ==
    /\ pc[t] = "seen"
    /\ seen' = RecordSeen(seen, article[t].url, article[t].website_name, now, now)
    /\ wrote' = [wrote EXCEPT ![t] = IF seen' # seen THEN @ \cup {"seen_urls"} ELSE @]
    /\ pc' = [pc EXCEPT ![t] = "stats"]
    /\ UNCHANGED <<aux, now, rec, applied, backup, twitter, blobv, runv, batch, proc, articles, stats, runs, lock, article, status, reason, via,
                   total, delta, faulted, orphanAtCall, outcomes, ghost>>

\* line 197 with the clock advancing between the datetime.now() of line 269
\* and the one of line 270
AddToSeenUrlsLate(t) ==
    /\ pc[t] = "seen"
    /\ now < MaxTicks
    /\ now' = now + 1
    /\ seen' = RecordSeen(seen, article[t].url, article[t].website_name, now, now')
    /\ wrote' = [wrote EXCEPT ![t] = IF seen' # seen THEN @ \cup {"seen_urls"} ELSE @]
    /\ pc' = [pc EXCEPT ![t] = "stats"]
    /\ UNCHANGED <<aux, rec, applied, backup, twitter, blobv, runv, batch, proc, articles,
                   stats, runs, lock, article, status, reason, via, total, delta,
                   faulted, orphanAtCall, outcomes, ghost>>

\* _add_to_seen_urls(url) called once for a url whatever the ledger holds: the
\* case its 'except DuplicateKeyError' (lines 275-277) is written for
AddToSeenUrlsCall ==
    /\ rec = NoRecord
    /\ \E u \in Keys :
        /\ seen' = RecordSeen(seen, u, NoSource, now, now)
        /\ rec' = [url |-> u, had |-> HasUrl(seen, u), at |-> now,
                   raised |-> AddToSeenUrlsRaises(seen, u, NoSource, now, now)]
    /\ UNCHANGED <<aux, now, applied, backup, twitter, blobv, runv, batch, articlev2>>

\* time passes between two calls; inside a call only the advance between the
\* two clock reads of _add_to_seen_urls is followed (AddToSeenUrlsLate)
Tick ==
    /\ now < MaxTicks
    /\ \A t \in Threads : pc[t] = "idle"
    /\ now' = now + 1
    /\ UNCHANGED <<aux, rec, applied, backup, twitter, blobv, runv, articlev>>

\* lines 278-279: any other exception of the ledger insert is logged and dropped
AddToSeenUrlsFails(t) ==
    /\ pc[t] = "seen"
    /\ Raise(t)
    /\ pc' = [pc EXCEPT ![t] = "stats"]
    /\ UNCHANGED <<aux, now, rec, applied, backup, twitter, blobv, runv, batch, proc, store, lock, article, status, reason, via, total, delta,
                   wrote, orphanAtCall, outcomes, lostStats, calls, crashes, xrace>>

\* line 200: self._update_stats(added=1, source=article.get('website_name'))
UpdateStatsAdded(t) ==
    /\ pc[t] = "stats"
    /\ stats' = UpdateStats(stats, 1, 0, article[t].website_name)
    /\ applied' = [applied EXCEPT
                     !.articles = @ + 1,
                     !.by_source = [s \in Sources |->
                                      @[s] + IF s = article[t].website_name
                                             THEN 1 ELSE 0]]
    /\ delta' = [delta EXCEPT ![t] = StatsDiff(StatsDoc(stats'), StatsDoc(stats))]
    /\ wrote' = [wrote EXCEPT ![t] = @ \cup {"stats"}]
    /\ pc' = [pc EXCEPT ![t] = "count"]
    /\ UNCHANGED <<aux, now, rec, backup, twitter, blobv, runv, batch, proc, articles, seen, runs, lock, article, status, reason, via,
                   total, faulted, orphanAtCall, outcomes, ghost>>

\* lines 320-321: an exception of the stats update is logged and dropped
UpdateStatsAddedFails(t) ==
    /\ pc[t] = "stats"
    /\ Raise(t)
    /\ lostStats' = lostStats + 1
    /\ pc' = [pc EXCEPT ![t] = "count"]
    /\ UNCHANGED <<aux, now, rec, applied, backup, twitter, blobv, runv, batch, proc, store, lock, article, status, reason, via, total, delta,
                   wrote, orphanAtCall, outcomes, calls, crashes, xrace>>

\* lines 202-211: total_articles = count_documents({}); return 'success'
CountArticles(t) ==
    /\ pc[t] = "count"
    /\ Return(t, "success", "", CountDocuments(articles))
    /\ UNCHANGED <<aux, now, rec, applied, backup, twitter, blobv, runv, batch, proc, store, article, via, delta, wrote, faulted, orphanAtCall,
                   ghost>>

\* line 202 raises: lines 224-226 return 'error' although the item is stored
CountArticlesFails(t) ==
    /\ pc[t] = "count"
    /\ Raise(t)
    /\ Return(t, "error", "storage", 0)
    /\ UNCHANGED <<aux, now, rec, applied, backup, twitter, blobv, runv, batch, proc, store, article, via, delta, wrote, orphanAtCall, lostStats,
                   calls, crashes, xrace>>

\* lines 285-291: _track_duplicate updates the SeenEntry when there is one
TrackDuplicate(t) ==
    /\ pc[t] = "track"
    /\ seen' = TouchSeen(seen, article[t].url, now)
    /\ wrote' = [wrote EXCEPT ![t] = IF seen' # seen THEN @ \cup {"seen_urls"} ELSE @]
    /\ pc' = [pc EXCEPT ![t] = "dstats"]
    /\ UNCHANGED <<aux, now, rec, applied, backup, twitter, blobv, runv, batch, proc, articles, stats, runs, lock, article, status, reason, via,
                   total, delta, faulted, orphanAtCall, outcomes, ghost>>

\* lines 296-297: the update raises, _update_stats is skipped; 'duplicate' is
\* returned all the same (lines 183-187, 218-222)
TrackDuplicateFails(t) ==
    /\ pc[t] = "track"
    /\ Raise(t)
    /\ Return(t, "duplicate", "", 0)
    /\ UNCHANGED <<aux, now, rec, applied, backup, twitter, blobv, runv, batch, proc, store, article, via, delta, wrote, orphanAtCall, lostStats,
                   calls, crashes, xrace>>

\* the source that line 294, 'self._update_stats(duplicates=1)', hands on: the
\* source parameter of _track_duplicate is not passed, so it is always None
TrackDuplicateSource(s) == NoSource

\* line 294, then the return of lines 183-187 or 218-222
TrackDuplicateStats(t) ==
    /\ pc[t] = "dstats"
    /\ stats' = UpdateStats(stats, 0, 1, TrackDuplicateSource(article[t].website_name))
    /\ applied' = [applied EXCEPT !.duplicates = @ + 1]
    /\ delta' = [delta EXCEPT ![t] = StatsDiff(StatsDoc(stats'), StatsDoc(stats))]
    /\ wrote' = [wrote EXCEPT ![t] = @ \cup {"stats"}]
    /\ Return(t, "duplicate", "", 0)
    /\ UNCHANGED <<aux, now, rec, backup, twitter, blobv, runv, batch, proc, articles, seen, runs, article, via, faulted, orphanAtCall,
                   ghost>>

\* lines 320-321 on the duplicate path
TrackDuplicateStatsFails(t) ==
    /\ pc[t] = "dstats"
    /\ Raise(t)
    /\ Return(t, "duplicate", "", 0)
    /\ UNCHANGED <<aux, now, rec, applied, backup, twitter, blobv, runv, batch, proc, store, article, via, delta, wrote, orphanAtCall, lostStats,
                   calls, crashes, xrace>>

\* ------------------------------------------------------------------ run tracker
\* lines 445-465: start_scraper_run (source=None) inserts the run and counts it
\* in the register, under the lock
StartScraperRun(t) ==
    /\ pc[t] = "idle"
    /\ tpc[t] = "idle"
    /\ lock[ProcOf(t)] = Free
    /\ ~(batch.running /\ batch.by = t)
    /\ Len(runs) < MaxRuns
    /\ Started < MaxCalls
    /\ runs' = Append(runs, NewRun(NoSource))
    /\ stats' = IncRuns(stats)
    /\ applied' = [applied EXCEPT !.runs = @ + 1]
    /\ UNCHANGED <<aux, now, rec, backup, twitter, blobv, runv, batch, proc, articles, seen, lock, pc, callv, outcomes, ghost>>

\* lines 467-496: update_scraper_run(run_id, articles, duplicates, errors,
\* status) is one update_one under the lock; an id that matches no run
\* updates nothing
UpdateScraperRun(t) ==
    /\ pc[t] = "idle"
    /\ tpc[t] = "idle"
    /\ lock[ProcOf(t)] = Free
    /\ runOps < MaxRunOps
    /\ runOps' = runOps + 1
    /\ \E id \in 1..MaxRuns, a \in Deltas, d \in Deltas, e \in Deltas,
          st \in RunStatuses \cup {NoStatus} :
        /\ runs' = IF id \in 1..Len(runs)
                   THEN [runs EXCEPT ![id] = UpdateRunDoc(@, a, d, e, st)]
                   ELSE runs
        /\ runOp' = [op |-> "update", id |-> id,
                     negative |-> (a < 0 \/ d < 0 \/ e < 0),
                     positive |-> (a > 0 \/ d > 0 \/ e > 0)]
    /\ UNCHANGED <<aux, now, rec, applied, backup, twitter, blobv, batch, proc, articles, seen, stats, lock, pc,
                   callv, outcomes, ghost, lastRead>>

\* lines 498-518: end_scraper_run(run_id, status) is one update_one under the
\* lock
EndScraperRun(t) ==
    /\ pc[t] = "idle"
    /\ tpc[t] = "idle"
    /\ lock[ProcOf(t)] = Free
    /\ runOps < MaxRunOps
    /\ runOps' = runOps + 1
    /\ \E id \in 1..MaxRuns, st \in FinalStatuses :
        /\ runs' = IF id \in 1..Len(runs)
                   THEN [runs EXCEPT ![id] = EndRunDoc(@, st)]
                   ELSE runs
        /\ runOp' = [op |-> "end", id |-> id, negative |-> FALSE,
                     positive |-> FALSE]
    /\ UNCHANGED <<aux, now, rec, applied, backup, twitter, blobv, batch, proc, articles, seen, stats, lock, pc,
                   callv, outcomes, ghost, lastRead>>

\* ------------------------------------------------------------ process lifecycle
\* Process p is killed while one of its threads is inside add_article and is
\* started again: its calls never return, the new MongoDBManager has a new
\* lock, and __init__ runs _initialize_stats (lines 88-92).
Crash(p) ==
    /\ crashes < MaxCrashes
    /\ \E t \in Threads : ProcOf(t) = p /\ pc[t] # "idle"
    /\ crashes' = crashes + 1
    /\ pc' = [t \in Threads |-> IF ProcOf(t) = p THEN "idle" ELSE pc[t]]
    /\ status' = [t \in Threads |->
                    IF ProcOf(t) = p /\ pc[t] # "idle" THEN "crashed" ELSE status[t]]
    /\ lock' = [lock EXCEPT ![p] = Free]
    /\ stats' = InitializeStats(stats)
    /\ batch' = IF batch.running /\ batch.by \in Threads /\ ProcOf(batch.by) = p
                THEN [batch EXCEPT !.running = FALSE, !.by = "crashed"]
                ELSE batch
    /\ UNCHANGED <<aux, now, rec, applied, backup, twitter, blobv, runv, proc, articles, seen, runs, article, reason, via, total, delta,
                   wrote, faulted, orphanAtCall, outcomes, lostStats, calls, faults,
                   xrace>>

\* -------------------------------------------------------------------- add_tweet
\* 'return {...}' inside the with block of add_tweet
ReturnTweet(t, st, rs) ==
    /\ touts' = [touts EXCEPT ![st] = @ + 1]
    /\ tpc' = [tpc EXCEPT ![t] = "idle"]
    /\ tstatus' = [tstatus EXCEPT ![t] = st]
    /\ treason' = [treason EXCEPT ![t] = rs]
    /\ tlock' = [tlock EXCEPT ![ProcOf(t)] = Free]

\* lines 117-123: a tweet without an id returns {'status': 'error', 'reason':
\* 'missing_id'} at once; any other call goes on to 'with self.lock:'
AddTweet(t) ==
    /\ tpc[t] = "idle"
    /\ pc[t] = "idle"
    /\ tcalls < MaxTweets
    /\ tcalls' = tcalls + 1
    /\ \E tw \in TweetsSubmitted :
        /\ tweet' = [tweet EXCEPT ![t] =
                       [tweet_id |-> tw.tweet_id, id |-> tw.id, media |-> tw.media,
                        username |-> tw.username, keyword |-> tw.keyword,
                        file |-> NoFile]]
        /\ IF MissingId(tw)
           THEN /\ tstatus' = [tstatus EXCEPT ![t] = "error"]
                /\ treason' = [treason EXCEPT ![t] = "missing_id"]
                /\ tpc' = tpc
           ELSE /\ tstatus' = [tstatus EXCEPT ![t] = "pending"]
                /\ treason' = [treason EXCEPT ![t] = ""]
                /\ tpc' = [tpc EXCEPT ![t] = "lock"]
    /\ twrote' = [twrote EXCEPT ![t] = {}]
    /\ UNCHANGED <<aux, now, rec, applied, backup, articlev, blobv, runv, tweets, twitter_stats, gridfs, tlock>>

\* lines 117-123: add_tweet(tw) with a tweet tw that has an id
AddTweetOf(t, tw) ==
    /\ tpc[t] = "idle"
    /\ pc[t] = "idle"
    /\ tcalls < MaxTweets
    /\ ~MissingId(tw)
    /\ tcalls' = tcalls + 1
    /\ tweet' = [tweet EXCEPT ![t] =
                   [tweet_id |-> tw.tweet_id, id |-> tw.id, media |-> tw.media,
                    username |-> tw.username, keyword |-> tw.keyword,
                    file |-> NoFile]]
    /\ tstatus' = [tstatus EXCEPT ![t] = "pending"]
    /\ treason' = [treason EXCEPT ![t] = ""]
    /\ tpc' = [tpc EXCEPT ![t] = "lock"]
    /\ twrote' = [twrote EXCEPT ![t] = {}]
    /\ UNCHANGED <<aux, now, rec, applied, backup, articlev, blobv, runv, tweets,
                   twitter_stats, gridfs, tlock>>

\* lines 123-134: 'with self.lock:', then tweet['tweet_id'] = tweet_id; a tweet
\* with media goes to store_media_for_tweet, any other to the insert
AcquireTweetLock(t) ==
    /\ tpc[t] = "lock"
    /\ tlock[ProcOf(t)] = Free
    /\ tlock' = [tlock EXCEPT ![ProcOf(t)] = t]
    /\ tweet' = [tweet EXCEPT ![t].tweet_id = TweetId(tweet[t])]
    /\ tpc' = [tpc EXCEPT ![t] = IF tweet[t].media # NoMedia THEN "media" ELSE "insert"]
    /\ UNCHANGED <<aux, now, rec, applied, backup, articlev, blobv, runv, tweets, twitter_stats, gridfs, tstatus, treason,
                   twrote, tcalls>>

\* upload_media_file lines 390-396: a stored file with the same digest is
\* reused, otherwise the file is uploaded next
FindMedia(t) ==
    /\ tpc[t] = "media"
    /\ LET found == FindByMd5(gridfs, Md5(tweet[t].media))
       IN  IF found # NoFile
           THEN /\ tweet' = [tweet EXCEPT ![t].file = found]
                /\ tpc' = [tpc EXCEPT ![t] = "insert"]
           ELSE /\ tweet' = tweet
                /\ tpc' = [tpc EXCEPT ![t] = "put"]
    /\ UNCHANGED <<aux, now, rec, applied, backup, articlev, blobv, runv, tweets, twitter_stats, gridfs, tlock, tstatus,
                   treason, twrote, tcalls>>

\* upload_media_file lines 404-415 and store_media_for_tweet lines 469-487
PutMedia(t) ==
    /\ tpc[t] = "put"
    /\ gridfs' = GridFsPut(gridfs, tweet[t].media, tweet[t].tweet_id, driverMd5)
    /\ tweet' = [tweet EXCEPT ![t].file = Len(gridfs) + 1]
    /\ twrote' = [twrote EXCEPT ![t] = @ \cup {"gridfs"}]
    /\ tpc' = [tpc EXCEPT ![t] = "insert"]
    /\ UNCHANGED <<aux, now, rec, applied, backup, articlev, blobv, runv, tweets, twitter_stats, tlock, tstatus, treason,
                   tcalls>>

\* line 138: tweets_collection.insert_one(tweet); DuplicateKeyError is caught
\* at lines 160-166 and returned as 'duplicate'
InsertTweet(t) ==
    /\ tpc[t] = "insert"
    /\ LET doc == [tweet_id |-> tweet[t].tweet_id, username |-> tweet[t].username,
                   keyword |-> tweet[t].keyword,
                   media_files_gridfs |-> tweet[t].file]
       IN  IF DuplicateTweetKey(tweets, doc)
           THEN /\ ReturnTweet(t, "duplicate", "")
                /\ UNCHANGED <<tweets, twrote>>
           ELSE /\ tweets' = Append(tweets, doc)
                /\ twrote' = [twrote EXCEPT ![t] = @ \cup {"tweets"}]
                /\ tpc' = [tpc EXCEPT ![t] = "stats"]
                /\ UNCHANGED <<tlock, tstatus, treason, touts>>
    /\ UNCHANGED <<boot, single, tbatch, script, now, rec, applied, backup, articlev,
                   blobv, runv, twitter_stats, gridfs, tweet, tcalls>>

\* line 138 raises another exception: lines 168-170 return 'error'
InsertTweetFails(t) ==
    /\ tpc[t] = "insert"
    /\ Raise(t)
    /\ ReturnTweet(t, "error", "storage")
    /\ UNCHANGED <<boot, single, tbatch, script, now, rec, applied, backup, blobv, runv, batch, proc, store, lock, pc,
                   article, status, reason, via, total, delta, wrote, orphanAtCall,
                   outcomes, lostStats, calls, crashes, xrace, tweets,
                   twitter_stats, gridfs, tweet, twrote, tcalls>>

\* lines 141-145: _update_stats(tweets=1, username=..., keyword=...)
UpdateTweetStats(t) ==
    /\ tpc[t] = "stats"
    /\ twitter_stats' = UpdateTwitterStats(twitter_stats, tweet[t].username,
                                           tweet[t].keyword)
    /\ twrote' = [twrote EXCEPT ![t] = @ \cup {"twitter_stats"}]
    /\ tpc' = [tpc EXCEPT ![t] = "count"]
    /\ UNCHANGED <<aux, now, rec, applied, backup, articlev, blobv, runv, tweets, gridfs, tlock, tweet, tstatus, treason,
                   tcalls>>

\* lines 147-158: count_documents({}) and 'return {'status': 'success', ...}'
CountTweets(t) ==
    /\ tpc[t] = "count"
    /\ ReturnTweet(t, "success", "")
    /\ UNCHANGED <<boot, single, tbatch, script, now, rec, applied, backup, articlev, blobv, runv, tweets, twitter_stats, gridfs, tweet, twrote, tcalls>>

\* ------------------------------------------------------------- add_tweets_batch
\* the lists add_tweets_batch is called with
TweetLists == UNION {[1..n -> TweetsSubmitted] : n \in 0..MaxBatchTweets}

\* lines 181-186: add_tweets_batch(items) is called; 'preset' is the
\* media_files_gridfs value the caller has put into the tweets with media
StartTweetBatch(t, items, preset) ==
    /\ tbatch.by = "nobody"
    /\ tpc[t] = "idle"
    /\ pc[t] = "idle"
    /\ tbatch' = [by |-> t, items |-> items, i |-> 0, running |-> TRUE,
                  preset |-> preset, results |-> NewTweetResults(items)]

AddTweetsBatch(t) ==
    /\ \E items \in TweetLists : StartTweetBatch(t, items, NoFile)
    /\ UNCHANGED <<boot, single, script, touts, now, rec, applied, backup, articlev,
                   blobv, runv, twitter>>

\* lines 188-197: the result of the add_tweet call that has returned is
\* counted, and add_tweet is called with the next tweet (lines 117-123);
\* after the last one the results are returned (line 204)
TweetBatchLoop(t) ==
    /\ tbatch.running
    /\ tbatch.by = t
    /\ tpc[t] = "idle"
    /\ LET counted == IF tbatch.i > 0 THEN TallyTweet(tbatch.results, tstatus[t])
                      ELSE tbatch.results
       IN  IF tbatch.i < Len(tbatch.items)
           THEN LET tw == tbatch.items[tbatch.i + 1]
                IN  /\ tbatch' = [tbatch EXCEPT !.i = @ + 1, !.results = counted]
                    /\ tweet' = [tweet EXCEPT ![t] =
                          [tweet_id |-> tw.tweet_id, id |-> tw.id, media |-> tw.media,
                           username |-> tw.username, keyword |-> tw.keyword,
                           file |-> IF tw.media # NoMedia THEN tbatch.preset
                                    ELSE NoFile]]
                    /\ twrote' = [twrote EXCEPT ![t] = {}]
                    /\ IF MissingId(tw)
                       THEN /\ tstatus' = [tstatus EXCEPT ![t] = "error"]
                            /\ treason' = [treason EXCEPT ![t] = "missing_id"]
                            /\ tpc' = tpc
                       ELSE /\ tstatus' = [tstatus EXCEPT ![t] = "pending"]
                            /\ treason' = [treason EXCEPT ![t] = ""]
                            /\ tpc' = [tpc EXCEPT ![t] = "lock"]
           ELSE /\ tbatch' = [tbatch EXCEPT !.running = FALSE, !.results = counted]
                /\ UNCHANGED <<tweet, twrote, tstatus, treason, tpc>>
    /\ UNCHANGED <<boot, single, script, touts, now, rec, applied, backup, articlev,
                   blobv, runv, tweets, twitter_stats, gridfs, tlock, tcalls>>

\* add_tweet called by a thread that is not inside add_tweets_batch
AddTweetBeside(t) ==
    /\ ~(tbatch.running /\ tbatch.by = t)
    /\ AddTweet(t)

NextTweets ==
    \/ \E t \in Threads : AddTweetsBatch(t)
    \/ \E t \in Threads : TweetBatchLoop(t)
    \/ \E t \in Threads : AddTweetBeside(t)
    \/ \E t \in Threads : AcquireTweetLock(t)
    \/ \E t \in Threads : FindMedia(t)
    \/ \E t \in Threads : PutMedia(t)
    \/ \E t \in Threads : InsertTweet(t)
    \/ \E t \in Threads : InsertTweetFails(t)
    \/ \E t \in Threads : UpdateTweetStats(t)
    \/ \E t \in Threads : CountTweets(t)

\* ---------------------------------------------------------------- upload scripts
\* upload_media_to_gridfs.py (MediaUploader) and standalone_upload.py
\* (SimpleMediaUploader) run as a process of their own, here thread "t2".
\* A media file is named by its bytes; the folder's tweets_index.json holds
\* MediaTweet, whose media file is "m".
ScriptThread == "t2"
TweetsIndex == <<MediaTweet>>

\* the lists of media files scan_media_files returns
FileLists == UNION {[1..n -> Contents] : n \in 0..MaxFiles}

\* a script that takes every run for a real one
NeverDryRun(s) == FALSE

\* 'if self.dry_run:' (upload_media_to_gridfs.py line 136 and 224,
\* standalone_upload.py line 122)
IsDryRun(s) == s.dry_run

\* upload_all_media lines 249-253: the scan counts the files in
\* stats['files_found']; with no file the statistics are returned at once
UploadAllMedia ==
    /\ script.pc = "idle"
    /\ tpc[ScriptThread] = "idle"
    /\ \E k \in Counting, dry \in BOOLEAN, files \in FileLists :
        script' = [IdleScript EXCEPT
                     !.pc = IF files = <<>> THEN "done" ELSE "file",
                     !.kind = k, !.dry_run = dry, !.files = files,
                     !.stats.files_found = Len(files)]
    /\ UNCHANGED <<boot, single, tbatch, touts, now, rec, applied, backup, articlev,
                   blobv, runv, twitter>>

\* upload_file_to_gridfs lines 133-151 for the next file: a dry run returns
\* "dry_run_id"; otherwise the file is read and hashed, and a stored file with
\* the digest is counted as a duplicate and its id returned; the id returned
\* goes into folder_mappings (lines 279-281)
UploadFileToGridfs ==
    /\ script.pc = "file"
    /\ script.i < Len(script.files)
    /\ LET c == script.files[script.i + 1]
           found == FindByMd5(gridfs, Md5(c))
       IN  IF IsDryRun(script)
           THEN script' = [script EXCEPT !.mappings[c] = DryRunId, !.i = @ + 1]
           ELSE IF found # NoFile
           THEN script' = [script EXCEPT
                             !.stats.duplicates_detected = @ + 1,
                             !.stats.files_skipped = @ + 1,
                             !.mappings[c] = found, !.i = @ + 1]
           ELSE script' = [script EXCEPT !.pc = "put"]
    /\ UNCHANGED <<boot, single, tbatch, touts, now, rec, applied, backup, articlev,
                   blobv, runv, twitter>>

\* lines 159-174: the file is opened again and put; files_uploaded and
\* total_size_uploaded (every file has size 1) are counted
ScriptPut ==
    /\ script.pc = "put"
    /\ LET c == script.files[script.i + 1]
       IN  /\ gridfs' = GridFsPut(gridfs, c, c, driverMd5)
           /\ script' = [script EXCEPT
                           !.stats.files_uploaded = @ + 1,
                           !.stats.total_size_uploaded = @ + 1,
                           !.mappings[c] = Len(gridfs) + 1,
                           !.wrote = @ \cup {"gridfs"},
                           !.pc = "file", !.i = @ + 1]
    /\ UNCHANGED <<boot, single, tbatch, touts, now, rec, applied, backup, articlev,
                   blobv, runv, tweets, twitter_stats, tlock, tpc, tweet, tstatus,
                   treason, twrote, tcalls>>

\* lines 176-179: the upload raises; files_failed is counted and None is
\* returned, so the file gets no mapping
ScriptPutFails ==
    /\ script.pc = "put"
    /\ Raise(ScriptThread)
    /\ script' = [script EXCEPT !.stats.files_failed = @ + 1,
                                !.pc = "file", !.i = @ + 1]
    /\ UNCHANGED <<boot, single, tbatch, touts, now, rec, applied, backup, blobv,
                   runv, batch, proc, store, lock, pc, article, status, reason, via,
                   total, delta, wrote, orphanAtCall, outcomes, lostStats, calls,
                   crashes, xrace, twitter>>

\* update_tweets_with_gridfs lines 200-221: some tweet of the index has a
\* media file in the mappings
UpdatedCount(mappings) ==
    Cardinality({j \in 1..Len(TweetsIndex) :
                   /\ TweetsIndex[j].media # NoMedia
                   /\ mappings[TweetsIndex[j].media] # NoFile})

\* upload_all_media lines 284-285 and update_tweets_with_gridfs lines
\* 196-226, after the last file: with a mapping, the tweets of the index get
\* media_files_gridfs from it and, unless this is a dry run, the index is
\* passed to add_tweets_batch. standalone_upload.py has no such step.
UpdateTweetsWithGridfs ==
    /\ script.pc = "file"
    /\ script.i = Len(script.files)
    /\ IF /\ script.kind = "MediaUploader"
          /\ \E c \in Contents : script.mappings[c] # NoFile
          /\ UpdatedCount(script.mappings) > 0
          /\ ~IsDryRun(script)
       THEN /\ StartTweetBatch(ScriptThread, TweetsIndex,
                               script.mappings[TweetsIndex[1].media])
            /\ script' = [script EXCEPT !.pc = "batch"]
       ELSE /\ script' = [script EXCEPT !.pc = "done"]
            /\ tbatch' = tbatch
    /\ UNCHANGED <<boot, single, touts, now, rec, applied, backup, articlev,
                   blobv, runv, twitter>>

\* line 226 and lines 288-300: add_tweets_batch has returned and the
\* statistics are returned
ScriptReturn ==
    /\ script.pc = "batch"
    /\ ~tbatch.running
    /\ script' = [script EXCEPT !.pc = "done"]
    /\ UNCHANGED <<boot, single, tbatch, touts, now, rec, applied, backup, articlev,
                   blobv, runv, twitter>>

\* upload_media_file lines 376-378: os.path.exists(file_path) is false, None
\* is returned, and store_media_for_tweet (lines 485-487) sets
\* media_files_gridfs to the empty list
MediaFileMissing(t) ==
    /\ tpc[t] = "media"
    /\ tweet' = [tweet EXCEPT ![t].file = NoFile]
    /\ tpc' = [tpc EXCEPT ![t] = "insert"]
    /\ UNCHANGED <<aux, now, rec, applied, backup, articlev, blobv, runv, tweets,
                   twitter_stats, gridfs, tlock, tstatus, treason, twrote, tcalls>>

\* import_existing_twitter_data.py lines 75-81: the tweet of the index is
\* imported by another process
ImportTweet(t) ==
    /\ t # ScriptThread
    /\ AddTweetOf(t, MediaTweet)

NextScript ==
    \/ UploadAllMedia
    \/ UploadFileToGridfs
    \/ ScriptPut
    \/ ScriptPutFails
    \/ UpdateTweetsWithGridfs
    \/ ScriptReturn
    \/ \E t \in Threads : ImportTweet(t)
    \/ \E t \in Threads : TweetBatchLoop(t)
    \/ \E t \in Threads : AcquireTweetLock(t)
    \/ \E t \in Threads : FindMedia(t)
    \/ \E t \in Threads : MediaFileMissing(t)
    \/ \E t \in Threads : PutMedia(t)
    \/ \E t \in Threads : InsertTweet(t)
    \/ \E t \in Threads : UpdateTweetStats(t)
    \/ \E t \in Threads : CountTweets(t)

\* ------------------------------------------------------------------ media upload
\* upload_media_file(file_path, tweet_id) / upload_file_to_gridfs(media_info)
\* is called: the file is read and hashed
StartUpload(u) ==
    /\ uploads[u].pc = "idle"
    /\ puts < MaxPuts
    /\ puts' = puts + 1
    /\ \E c \in Contents, g \in Tags :
        uploads' = [uploads EXCEPT ![u] =
                      [@ EXCEPT !.pc = "find", !.content = c, !.tag = g,
                                !.ref = NoFile, !.found = FALSE, !.put = FALSE,
                                !.before = uploads[u].duplicates_detected]]
    /\ overlap' = (overlap \/ \E v \in Uploaders : uploads[v].pc # "idle")
    /\ UNCHANGED <<aux, now, rec, applied, backup, articlev, twitter, runv, driverMd5, refs, got>>

\* existing_file = self.gridfs.find_one({"md5": file_hash}); a file that is
\* found is returned, and the two scripts count it in duplicates_detected
FindExisting(u) ==
    /\ uploads[u].pc = "find"
    /\ LET hit == FindByMd5(gridfs, Md5(uploads[u].content))
       IN  IF hit # NoFile
           THEN /\ uploads' = [uploads EXCEPT ![u] =
                     [@ EXCEPT !.pc = "idle", !.ref = hit, !.found = TRUE,
                               !.duplicates_detected =
                                   IF u \in Counting THEN @ + 1 ELSE @]]
                /\ refs' = [refs EXCEPT ![uploads[u].content] = @ \cup {hit}]
           ELSE /\ uploads' = [uploads EXCEPT ![u].pc = "put"]
                /\ refs' = refs
    /\ UNCHANGED <<aux, now, rec, applied, backup, articlev, twitter, runv, driverMd5, overlap, puts, got>>

\* self.gridfs.put(...): the file is stored and its new id returned
PutFile(u) ==
    /\ uploads[u].pc = "put"
    /\ gridfs' = GridFsPut(gridfs, uploads[u].content, uploads[u].tag, driverMd5)
    /\ uploads' = [uploads EXCEPT ![u] =
                     [@ EXCEPT !.pc = "idle", !.ref = Len(gridfs) + 1, !.put = TRUE,
                               !.files_uploaded = @ + 1]]
    /\ refs' = [refs EXCEPT ![uploads[u].content] = @ \cup {Len(gridfs) + 1}]
    /\ UNCHANGED <<aux, now, rec, applied, backup, articlev, tweets, twitter_stats, tlock, tpc, tweet, tstatus,
                   treason, twrote, tcalls, runv, driverMd5, overlap, puts, got>>

\* what gridfs.put is given: the two scripts reopen the file and pass the file
\* object (upload_media_to_gridfs.py lines 159-161, standalone_upload.py lines
\* 145-147), so the bytes stored are the ones the file holds then (onDisk);
\* upload_media_file passes the content it has hashed (line 405)
PutBytes(u, onDisk) == IF u \in Counting THEN onDisk ELSE uploads[u].content

\* self.gridfs.put(...) with a source file that any other program may have
\* rewritten since it was hashed: it holds the bytes c now
PutFileReread(u) ==
    /\ uploads[u].pc = "put"
    /\ \E c \in Contents :
        gridfs' = GridFsPut(gridfs, PutBytes(u, c), uploads[u].tag, driverMd5)
    /\ uploads' = [uploads EXCEPT ![u] =
                     [@ EXCEPT !.pc = "idle", !.ref = Len(gridfs) + 1, !.put = TRUE,
                               !.files_uploaded = @ + 1]]
    /\ refs' = [refs EXCEPT ![uploads[u].content] = @ \cup {Len(gridfs) + 1}]
    /\ UNCHANGED <<aux, now, rec, applied, backup, articlev, tweets, twitter_stats, tlock,
                   tpc, tweet, tstatus, treason, twrote, tcalls, runv, driverMd5,
                   overlap, puts, got>>

\* get_media_file(gridfs_id) is called; the storage may fail under it
GetMediaFileCall ==
    /\ \E ref \in FileRefs, fails \in BOOLEAN :
        got' = [ref |-> ref, cause |-> GetCause(gridfs, ref, fails),
                result |-> GetMediaFile(gridfs, ref, fails)]
    /\ UNCHANGED <<aux, now, rec, applied, backup, articlev, twitter, runv, uploads, driverMd5, refs, overlap, puts>>

Next ==
    \/ \E t \in Threads : AddArticle(t)
    \/ \E t \in Threads : Acquire(t)
    \/ \E t \in Threads : CheckSeen(t)
    \/ \E t \in Threads : CheckSeenFails(t)
    \/ \E t \in Threads : InsertArticle(t)
    \/ \E t \in Threads : InsertArticleFails(t)
    \/ \E t \in Threads : AddToSeenUrls(t)
    \/ \E t \in Threads : AddToSeenUrlsFails(t)
    \/ \E t \in Threads : UpdateStatsAdded(t)
    \/ \E t \in Threads : UpdateStatsAddedFails(t)
    \/ \E t \in Threads : CountArticles(t)
    \/ \E t \in Threads : CountArticlesFails(t)
    \/ \E t \in Threads : TrackDuplicate(t)
    \/ \E t \in Threads : TrackDuplicateFails(t)
    \/ \E t \in Threads : TrackDuplicateStats(t)
    \/ \E t \in Threads : TrackDuplicateStatsFails(t)
    \/ \E t \in Threads : StartScraperRun(t)
    \/ \E p \in Procs : Crash(p)

Spec == Init /\ [][Next]_vars

\* add_article and add_tweet with a store that answers every call and
\* processes that stay up
NextSubmit ==
    \/ \E t \in Threads : AddArticle(t)
    \/ \E t \in Threads : Acquire(t)
    \/ \E t \in Threads : CheckSeen(t)
    \/ \E t \in Threads : InsertArticle(t)
    \/ \E t \in Threads : AddToSeenUrls(t)
    \/ \E t \in Threads : UpdateStatsAdded(t)
    \/ \E t \in Threads : CountArticles(t)
    \/ \E t \in Threads : TrackDuplicate(t)
    \/ \E t \in Threads : TrackDuplicateStats(t)
    \/ \E t \in Threads : AddTweet(t)
    \/ \E t \in Threads : AcquireTweetLock(t)
    \/ \E t \in Threads : FindMedia(t)
    \/ \E t \in Threads : PutMedia(t)
    \/ \E t \in Threads : InsertTweet(t)
    \/ \E t \in Threads : UpdateTweetStats(t)
    \/ \E t \in Threads : CountTweets(t)

SpecSubmit == Init /\ [][NextSubmit]_vars

\* add_articles_batch by one thread while the other threads call add_article,
\* with storage failures
NextBatch ==
    \/ \E t \in Threads : AddArticlesBatch(t)
    \/ \E t \in Threads : BatchLoop(t)
    \/ \E t \in Threads : AddArticle(t)
    \/ \E t \in Threads : Acquire(t)
    \/ \E t \in Threads : CheckSeen(t)
    \/ \E t \in Threads : CheckSeenFails(t)
    \/ \E t \in Threads : InsertArticle(t)
    \/ \E t \in Threads : InsertArticleFails(t)
    \/ \E t \in Threads : AddToSeenUrls(t)
    \/ \E t \in Threads : AddToSeenUrlsFails(t)
    \/ \E t \in Threads : UpdateStatsAdded(t)
    \/ \E t \in Threads : UpdateStatsAddedFails(t)
    \/ \E t \in Threads : CountArticles(t)
    \/ \E t \in Threads : CountArticlesFails(t)
    \/ \E t \in Threads : TrackDuplicate(t)
    \/ \E t \in Threads : TrackDuplicateFails(t)
    \/ \E t \in Threads : TrackDuplicateStats(t)
    \/ \E t \in Threads : TrackDuplicateStatsFails(t)

SpecBatch == Init /\ [][NextBatch]_vars

\* the three upload entry points running side by side
NextBlobs ==
    \/ \E u \in Uploaders : StartUpload(u)
    \/ \E u \in Uploaders : FindExisting(u)
    \/ \E u \in Uploaders : PutFile(u)
    \/ GetMediaFileCall

SpecBlobs == InitBlobs /\ [][NextBlobs]_vars

\* the upload entry points with source files that change while they run
NextReread ==
    \/ \E u \in Uploaders : StartUpload(u)
    \/ \E u \in Uploaders : FindExisting(u)
    \/ \E u \in Uploaders : PutFileReread(u)

SpecReread == InitBlobs /\ [][NextReread]_vars

\* __init__ line 92 calls _initialize_stats; line 132,
\* 'if self.stats_collection.count_documents({}) == 0:', is evaluated
InitStatsCount(p) ==
    /\ boot[p] = "down"
    /\ boot' = [boot EXCEPT ![p] = IF CountDocuments(stats) = 0 THEN "insert" ELSE "up"]
    /\ UNCHANGED <<single, tbatch, script, touts, now, rec, applied, backup, articlev,
                   twitter, blobv, runv>>

\* lines 133-140: self.stats_collection.insert_one(initial_stats); the stats
\* collection has no unique index (lines 108-128), so the insert succeeds
\* whatever the collection holds by now
InitStatsInsert(p) ==
    /\ boot[p] = "insert"
    /\ stats' = Append(stats, InitialStats)
    /\ boot' = [boot EXCEPT ![p] = "up"]
    /\ UNCHANGED <<single, tbatch, script, touts, now, rec, applied, backup, twitter,
                   blobv, runv, batch, proc, articles, seen, runs, lock, pc, callv,
                   outcomes, ghost>>

\* the thread of a process calls add_article once the manager is constructed
AddArticleWhenUp(t) ==
    /\ boot[ProcOf(t)] = "up"
    /\ AddArticleOf(t, LiveArticle)

\* two processes construct their MongoDBManager on a new database and call
\* add_article, whose _update_stats upserts into the stats collection
NextInit ==
    \/ \E p \in Procs : InitStatsCount(p)
    \/ \E p \in Procs : InitStatsInsert(p)
    \/ \E t \in Threads : AddArticleWhenUp(t)
    \/ \E t \in Threads : Acquire(t)
    \/ \E t \in Threads : CheckSeen(t)
    \/ \E t \in Threads : InsertArticle(t)
    \/ \E t \in Threads : AddToSeenUrls(t)
    \/ \E t \in Threads : UpdateStatsAdded(t)
    \/ \E t \in Threads : CountArticles(t)
    \/ \E t \in Threads : TrackDuplicate(t)
    \/ \E t \in Threads : TrackDuplicateStats(t)

SpecInit == InitFresh /\ [][NextInit]_vars

\* the run tracker: runs are started, updated and ended in any order
NextRuns ==
    \/ \E t \in Threads : StartScraperRun(t)
    \/ \E t \in Threads : UpdateScraperRun(t)
    \/ \E t \in Threads : EndScraperRun(t)

SpecRuns == Init /\ [][NextRuns]_vars

\* ------------------------------------------------------------ read operations
\* is_duplicate that looks the url up in the articles collection
IsDuplicateByItem(u) == HasUrl(articles, u)

\* lines 143-154: is_duplicate
IsDuplicate(u) == HasUrl(seen, u)

\* get_database_stats that reports total_articles of the stats document
GetDatabaseStatsFromRegister ==
    [total_articles |-> StatsDoc(stats).total_articles,
     total_seen_urls |-> Len(seen),
     total_duplicates |-> StatsDoc(stats).total_duplicates,
     total_scraper_runs |-> Len(runs),
     sources |-> StatsDoc(stats).sources]

\* lines 362-408: get_database_stats counts the collections (lines 382-384) and
\* reads the duplicate total and the sources of the stats document; without a
\* stats document these two are 0 and {} (lines 373-379, 401, 407)
GetDatabaseStats ==
    [total_articles |-> Len(articles),
     total_seen_urls |-> Len(seen),
     total_duplicates |-> StatsDoc(stats).total_duplicates,
     total_scraper_runs |-> Len(runs),
     sources |-> StatsDoc(stats).sources]

\* lines 348-360: get_article_by_id is find_one({'url': article_id})
GetArticleById(u) == IF HasUrl(articles, u) THEN articles[FirstMatch(articles, u)] ELSE None

\* the documents of a collection, as the list-returning reads give them; the
\* order of the list is left out
Docs(coll) == {coll[i] : i \in 1..Len(coll)}

\* lines 421-433: get_duplicates is find({'seen_count': {'$gt': 1}})
GetDuplicates == {d \in Docs(seen) : d.seen_count > 1}

\* 'with self.lock:' of a read method: the caller's process lock is free
CanRead(t) == pc[t] = "idle" /\ tpc[t] = "idle" /\ lock[ProcOf(t)] = Free

\* the finds or counts of a read method and the return of what they gave
Read(op, arg, result) ==
    /\ lastRead' = [seq |-> ~lastRead.seq, op |-> op, arg |-> arg, result |-> result]
    /\ UNCHANGED <<aux, now, rec, applied, backup, twitter, blobv, batch, articlev, runOp, runOps>>

ReadIsDuplicate(t) ==
    /\ CanRead(t)
    /\ \E u \in Keys : Read("is_duplicate", u, IsDuplicate(u))

ReadArticleById(t) ==
    /\ CanRead(t)
    /\ \E u \in Keys : Read("get_article_by_id", u, GetArticleById(u))

ReadAllArticles(t) ==
    /\ CanRead(t)
    /\ Read("get_all_articles", NoKey, Docs(articles))

ReadAllArticlesSorted(t) ==
    /\ CanRead(t)
    /\ Read("get_all_articles_sorted", NoKey, Docs(articles))

ReadDatabaseStats(t) ==
    /\ CanRead(t)
    /\ Read("get_database_stats", NoKey, GetDatabaseStats)

ReadSeenUrls(t) ==
    /\ CanRead(t)
    /\ Read("get_seen_urls", NoKey, Docs(seen))

ReadDuplicates(t) ==
    /\ CanRead(t)
    /\ Read("get_duplicates", NoKey, GetDuplicates)

ReadScraperRuns(t) ==
    /\ CanRead(t)
    /\ Read("get_scraper_runs", NoKey, Docs(runs))

\* ------------------------------------------------------------ export and import
\* lines 547-570: backup_database writes mongodb_backup_<timestamp>.json with
\* the articles it finds under the lock
BackupDatabase(t) ==
    /\ CanRead(t)
    /\ ~backup.taken
    /\ backup' = [NoBackup EXCEPT !.taken = TRUE, !.name = "mongodb_backup.json",
                                  !.articles = Export(articles)]
    /\ UNCHANGED <<aux, now, rec, applied, twitter, blobv, runv, batch, articlev2, seen>>

\* the backup file is copied into the output directory under a name that
\* merge_old_json_files selects (line 592)
PlaceBackup ==
    /\ backup.taken
    /\ ~Selected(backup.name)
    /\ backup' = [backup EXCEPT !.name = "scraped_articles.json"]
    /\ UNCHANGED <<aux, now, rec, applied, twitter, blobv, runv, batch, articlev2, seen>>

\* a MongoDBManager is constructed on a database that has no collections yet
\* (lines 82-92): the store the backup is imported into is empty
NewDatabase ==
    /\ backup.taken
    /\ backup.store = "same"
    /\ ~backup.merging
    /\ \A t \in Threads : pc[t] = "idle"
    /\ articles' = <<>>
    /\ seen' = <<>>
    /\ runs' = <<>>
    /\ stats' = InitializeStats(<<>>)
    /\ backup' = [backup EXCEPT !.store = "empty", !.calls = calls]
    /\ UNCHANGED <<aux, now, rec, applied, twitter, blobv, runv, batch, proc, lock, pc,
                   callv, outcomes, ghost>>

\* lines 582-606: merge_old_json_files lists the files it selects, takes the
\* list under 'articles' of the file and calls add_articles_batch with it;
\* with no file selected it returns its zero statistics (line 623)
MergeOldJsonFiles(t) ==
    /\ pc[t] = "idle"
    /\ tpc[t] = "idle"
    /\ ~batch.running
    /\ backup.taken
    /\ ~backup.merging
    /\ backup.merged[backup.store] = None
    /\ IF Selected(backup.name)
       THEN /\ batch' = [by |-> t, items |-> backup.articles, i |-> 0,
                         running |-> TRUE,
                         results |-> NewResults(backup.articles), outs |-> <<>>]
            /\ backup' = [backup EXCEPT !.merging = TRUE]
       ELSE /\ batch' = batch
            /\ backup' = [backup EXCEPT !.merged[backup.store] =
                             [files_processed |-> 0, articles_added |-> 0,
                              duplicates_found |-> 0, inserted |-> 0]]
    /\ UNCHANGED <<aux, now, rec, applied, twitter, blobv, runv, articlev2, seen>>

\* lines 606-623: add_articles_batch has returned; its result goes into the
\* statistics merge_old_json_files returns
MergeReturn(t) ==
    /\ backup.merging
    /\ batch.by = t
    /\ ~batch.running
    /\ backup' = [backup EXCEPT
                    !.merging = FALSE,
                    !.merged[backup.store] =
                        [files_processed |-> 1,
                         articles_added |-> batch.results.added,
                         duplicates_found |-> batch.results.duplicates,
                         inserted |-> Cardinality({j \in 1..Len(batch.outs) :
                                                     batch.outs[j].inserted})]]
    /\ UNCHANGED <<aux, now, rec, applied, twitter, blobv, runv, batch, articlev2, seen>>

\* the stats document is lost: get_database_stats has a branch for a stats
\* collection without a document (lines 373-379), and the next
\* update_one(..., upsert=True) or _initialize_stats creates a new one
DropStats ==
    /\ stats # <<>>
    /\ stats' = <<>>
    /\ UNCHANGED <<aux, now, rec, applied, backup, twitter, blobv, runv, batch, proc,
                   articles, seen, runs, lock, pc, callv, outcomes, ghost>>

\* lines 143-153: is_duplicate(url) is called and arrives at 'with self.lock:'
IsDuplicateCall(t) ==
    /\ pc[t] = "idle"
    /\ tpc[t] = "idle"
    /\ pc' = [pc EXCEPT ![t] = "rlock"]
    /\ UNCHANGED <<aux, now, rec, applied, backup, twitter, blobv, runv, batch, proc, store,
                   lock, callv, outcomes, ghost>>

\* line 153: the lock is free and is_duplicate takes it
IsDuplicateAcquire(t) ==
    /\ pc[t] = "rlock"
    /\ lock[ProcOf(t)] = Free
    /\ lock' = [lock EXCEPT ![ProcOf(t)] = t]
    /\ pc' = [pc EXCEPT ![t] = "read"]
    /\ UNCHANGED <<aux, now, rec, applied, backup, twitter, blobv, runv, batch, proc, store,
                   callv, outcomes, ghost>>

\* line 154: the count for url u is returned and the 'with' block left
IsDuplicateReturnOf(t, u) ==
    /\ pc[t] = "read"
    /\ lastRead' = [lastRead EXCEPT !.op = "is_duplicate", !.arg = u,
                                    !.result = IsDuplicate(u)]
    /\ lock' = Release(t)
    /\ pc' = [pc EXCEPT ![t] = "idle"]
    /\ UNCHANGED <<aux, now, rec, applied, backup, twitter, blobv, runOp, runOps, batch,
                   proc, store, callv, outcomes, ghost>>

IsDuplicateReturn(t) == \E u \in Keys : IsDuplicateReturnOf(t, u)

\* the reads called between and during add_article and start_scraper_run
\* calls, by a thread of the same process or of another one
NextReads ==
    \/ \E t \in Threads : AddArticle(t)
    \/ \E t \in Threads : Acquire(t)
    \/ \E t \in Threads : CheckSeen(t)
    \/ \E t \in Threads : InsertArticle(t)
    \/ \E t \in Threads : AddToSeenUrls(t)
    \/ \E t \in Threads : UpdateStatsAdded(t)
    \/ \E t \in Threads : CountArticles(t)
    \/ \E t \in Threads : TrackDuplicate(t)
    \/ \E t \in Threads : TrackDuplicateStats(t)
    \/ \E t \in Threads : StartScraperRun(t)
    \/ \E t \in Threads : ReadIsDuplicate(t)
    \/ \E t \in Threads : ReadArticleById(t)
    \/ \E t \in Threads : ReadAllArticles(t)
    \/ \E t \in Threads : ReadAllArticlesSorted(t)
    \/ \E t \in Threads : ReadDatabaseStats(t)
    \/ \E t \in Threads : ReadSeenUrls(t)
    \/ \E t \in Threads : ReadDuplicates(t)
    \/ \E t \in Threads : ReadScraperRuns(t)

SpecReads == Init /\ [][NextReads]_vars

\* get_database_stats called while add_article calls run, stats updates fail
\* and the stats document is lost
NextSnapshot ==
    \/ \E t \in Threads : AddArticle(t)
    \/ \E t \in Threads : Acquire(t)
    \/ \E t \in Threads : CheckSeen(t)
    \/ \E t \in Threads : InsertArticle(t)
    \/ \E t \in Threads : AddToSeenUrls(t)
    \/ \E t \in Threads : UpdateStatsAdded(t)
    \/ \E t \in Threads : UpdateStatsAddedFails(t)
    \/ \E t \in Threads : CountArticles(t)
    \/ \E t \in Threads : TrackDuplicate(t)
    \/ \E t \in Threads : TrackDuplicateStats(t)
    \/ \E t \in Threads : ReadDatabaseStats(t)
    \/ DropStats

SpecSnapshot == Init /\ [][NextSnapshot]_vars

\* the callers are two processes: their calls interleave freely
InitLedger == Init /\ proc["t2"] = "p2"

\* backup_database, then merge_old_json_files on the backup, into the same
\* store and into an empty one, while add_article calls go on
NextImport ==
    \/ \E t \in Threads : AddArticle(t)
    \/ \E t \in Threads : Acquire(t)
    \/ \E t \in Threads : CheckSeen(t)
    \/ \E t \in Threads : InsertArticle(t)
    \/ \E t \in Threads : AddToSeenUrls(t)
    \/ \E t \in Threads : UpdateStatsAdded(t)
    \/ \E t \in Threads : CountArticles(t)
    \/ \E t \in Threads : TrackDuplicate(t)
    \/ \E t \in Threads : TrackDuplicateStats(t)
    \/ \E t \in Threads : BatchLoop(t)
    \/ \E t \in Threads : BackupDatabase(t)
    \/ PlaceBackup
    \/ NewDatabase
    \/ \E t \in Threads : MergeOldJsonFiles(t)
    \/ \E t \in Threads : MergeReturn(t)

SpecImport == InitLedger /\ [][NextImport]_vars

\* the threads of one process: they share the lock of its MongoDBManager and
\* the lock of its TwitterMongoManager
InitLocks == Init /\ proc["t2"] = "p1"

\* every method that takes a lock and what it calls inside the 'with' block:
\* add_article, is_duplicate, backup_database and add_tweet with its media
NextLocks ==
    \/ \E t \in Threads : AddArticleOf(t, LiveArticle)
    \/ \E t \in Threads : Acquire(t)
    \/ \E t \in Threads : CheckSeen(t)
    \/ \E t \in Threads : InsertArticle(t)
    \/ \E t \in Threads : AddToSeenUrls(t)
    \/ \E t \in Threads : UpdateStatsAdded(t)
    \/ \E t \in Threads : CountArticles(t)
    \/ \E t \in Threads : TrackDuplicate(t)
    \/ \E t \in Threads : TrackDuplicateStats(t)
    \/ \E t \in Threads : IsDuplicateCall(t)
    \/ \E t \in Threads : IsDuplicateAcquire(t)
    \/ \E t \in Threads : IsDuplicateReturnOf(t, LiveUrl)
    \/ \E t \in Threads : BackupDatabase(t)
    \/ \E t \in Threads : AddTweetOf(t, MediaTweet)
    \/ \E t \in Threads : AcquireTweetLock(t)
    \/ \E t \in Threads : FindMedia(t)
    \/ \E t \in Threads : PutMedia(t)
    \/ \E t \in Threads : InsertTweet(t)
    \/ \E t \in Threads : UpdateTweetStats(t)
    \/ \E t \in Threads : CountTweets(t)

SpecLocks == InitLocks /\ [][NextLocks]_vars

\* what a thread does inside add_article, is_duplicate or add_tweet once it
\* has the lock, up to the return
StepInside(t) ==
    \/ CheckSeen(t)
    \/ InsertArticle(t)
    \/ AddToSeenUrls(t)
    \/ UpdateStatsAdded(t)
    \/ CountArticles(t)
    \/ TrackDuplicate(t)
    \/ TrackDuplicateStats(t)
    \/ IsDuplicateReturnOf(t, LiveUrl)
    \/ InsertTweet(t)
    \/ UpdateTweetStats(t)
    \/ CountTweets(t)

\* a thread at 'with self.lock:' enters the block
EnterLock(t) ==
    \/ Acquire(t)
    \/ IsDuplicateAcquire(t)
    \/ AcquireTweetLock(t)

\* add_article, is_duplicate and add_tweet, each with its exception exit;
\* is_duplicate is called any number of times
NextLive ==
    \/ \E t \in Threads : AddArticleOf(t, LiveArticle)
    \/ \E t \in Threads : IsDuplicateCall(t)
    \/ \E t \in Threads : AddTweetOf(t, LiveTweet)
    \/ \E t \in Threads : EnterLock(t)
    \/ \E t \in Threads : StepInside(t)
    \/ \E t \in Threads : InsertArticleFails(t)
    \/ \E t \in Threads : InsertTweetFails(t)

\* a thread that can take its next step inside a call takes it: the scheduler
\* runs every runnable thread and every storage call returns or raises. A
\* thread at 'with self.lock:' is runnable while the lock is free
\* (threading.Lock keeps no order among its waiters)
Fairness ==
    \A t \in Threads : WF_vars(StepInside(t)) /\ WF_vars(EnterLock(t))

SpecLive == InitLocks /\ [][NextLive]_vars /\ Fairness

\* a waiting thread gets the lock if the lock is free again and again
LockFair == \A t \in Threads : SF_vars(EnterLock(t))

\* get_mongodb_manager (lines 639-654) and get_twitter_manager (lines 526-535)
\* are the same code on the module's own _instance and _instance_lock.
\* A thread calls the function.
GetManager(t) ==
    /\ single.pc[t] = "idle"
    /\ single.gets < MaxGets
    /\ single' = [single EXCEPT !.pc[t] = "test", !.gets = @ + 1,
                                !.got[t] = 0, !.waited[t] = FALSE]
    /\ UNCHANGED <<boot, tbatch, script, touts, now, rec, applied, backup, articlev,
                   twitter, blobv, runv>>

\* line 648 (530): 'if _instance is None:' outside the lock
TestInstance(t) ==
    /\ single.pc[t] = "test"
    /\ single' = [single EXCEPT
                    !.pc[t] = IF single.instance = 0 THEN "lock" ELSE "return"]
    /\ UNCHANGED <<boot, tbatch, script, touts, now, rec, applied, backup, articlev,
                   twitter, blobv, runv>>

\* line 649 (531): 'with _instance_lock:' is entered
EnterInstanceLock(t) ==
    /\ single.pc[t] = "lock"
    /\ single.lock = Free
    /\ single' = [single EXCEPT !.pc[t] = "retest", !.lock = t, !.waited[t] = TRUE]
    /\ UNCHANGED <<boot, tbatch, script, touts, now, rec, applied, backup, articlev,
                   twitter, blobv, runv>>

\* the second test left out: whoever gets the lock constructs a manager
RetestSkipped(t) ==
    /\ single.pc[t] = "retest"
    /\ single' = [single EXCEPT !.pc[t] = "construct"]
    /\ UNCHANGED <<boot, tbatch, script, touts, now, rec, applied, backup, articlev,
                   twitter, blobv, runv>>

\* line 650 (532): 'if _instance is None:' under the lock; when another
\* thread has constructed the manager meanwhile the block is left
RetestInstance(t) ==
    /\ single.pc[t] = "retest"
    /\ single' = IF single.instance = 0
                  THEN [single EXCEPT !.pc[t] = "construct"]
                  ELSE [single EXCEPT !.pc[t] = "return", !.lock = Free]
    /\ UNCHANGED <<boot, tbatch, script, touts, now, rec, applied, backup, articlev,
                   twitter, blobv, runv>>

\* line 651 (533): the constructor runs, its result is assigned to _instance
\* and the block is left
ConstructInstance(t) ==
    /\ single.pc[t] = "construct"
    /\ single' = [single EXCEPT !.built = @ + 1, !.instance = single.built + 1,
                                !.runs = @ + 1, !.pc[t] = "return", !.lock = Free]
    /\ UNCHANGED <<boot, tbatch, script, touts, now, rec, applied, backup, articlev,
                   twitter, blobv, runv>>

\* line 651 (533): the constructor raises (_load_config finds no file, line
\* 75 re-raises ConnectionFailure): nothing is assigned, the 'with' block
\* releases the lock and the call ends with the exception
ConstructRaises(t) ==
    /\ single.pc[t] = "construct"
    /\ single' = [single EXCEPT !.runs = @ + 1, !.pc[t] = "idle", !.lock = Free]
    /\ UNCHANGED <<boot, tbatch, script, touts, now, rec, applied, backup, articlev,
                   twitter, blobv, runv>>

\* line 653 (535): 'return _instance'
ReturnInstance(t) ==
    /\ single.pc[t] = "return"
    /\ single' = [single EXCEPT !.pc[t] = "idle", !.got[t] = single.instance]
    /\ UNCHANGED <<boot, tbatch, script, touts, now, rec, applied, backup, articlev,
                   twitter, blobv, runv>>

NextSingle ==
    \/ \E t \in Threads : GetManager(t)
    \/ \E t \in Threads : TestInstance(t)
    \/ \E t \in Threads : EnterInstanceLock(t)
    \/ \E t \in Threads : RetestInstance(t)
    \/ \E t \in Threads : ConstructInstance(t)
    \/ \E t \in Threads : ConstructRaises(t)
    \/ \E t \in Threads : ReturnInstance(t)

SpecSingle == InitLocks /\ [][NextSingle]_vars

\* one run of an upload script in its own process, and the import of the
\* tweet by another process
SpecScript == InitLedger /\ [][NextScript]_vars

\* one add_tweets_batch call and add_tweet calls of the other thread, in the
\* same process or in another one
SpecTweets == Init /\ [][NextTweets]_vars

\* add_article with the clock running, and _add_to_seen_urls called on its own
NextLedger ==
    \/ \E t \in Threads : AddArticle(t)
    \/ \E t \in Threads : Acquire(t)
    \/ \E t \in Threads : CheckSeen(t)
    \/ \E t \in Threads : InsertArticle(t)
    \/ \E t \in Threads : AddToSeenUrls(t)
    \/ \E t \in Threads : AddToSeenUrlsLate(t)
    \/ \E t \in Threads : UpdateStatsAdded(t)
    \/ \E t \in Threads : CountArticles(t)
    \/ \E t \in Threads : TrackDuplicate(t)
    \/ \E t \in Threads : TrackDuplicateStats(t)
    \/ AddToSeenUrlsCall
    \/ Tick

SpecLedger == InitLedger /\ [][NextLedger]_vars

\* ------------------------------------------------------------------ properties
Quiescent == \A t \in Threads : pc[t] = "idle"
Items(k) == CountUrl(articles, k)
SeenCount(k) == IF HasUrl(seen, k) THEN seen[FirstMatch(seen, k)].seen_count ELSE 0
Returned(k) == outcomes[k].success + outcomes[k].duplicate + outcomes[k].error
PastInsert(k) == \E t \in Threads :
                    article[t].url = k /\ pc[t] \in {"seen", "stats", "count"}

\* what an accepted item of source src adds to the register
AcceptedDiff(src) ==
    [total_articles |-> 1, total_duplicates |-> 0,
     sources |-> [s \in Sources |->
                    [articles |-> IF s = src THEN 1 ELSE 0, duplicates |-> 0]]]

\* what a duplicate of an item of source src adds to the register
DuplicateDiff(src) ==
    [total_articles |-> 0, total_duplicates |-> 1,
     sources |-> [s \in Sources |->
                    [articles |-> 0, duplicates |-> IF s = src THEN 1 ELSE 0]]]

\* C1: the articles collection never holds two items with one url, whatever the
\* interleaving of the add_article calls of threads and processes, and it holds
\* exactly one as soon as a call has inserted it.
C1_Uniqueness ==
    \A k \in Keys :
        /\ Items(k) <= 1
        /\ (outcomes[k].success > 0 \/ PastInsert(k)) => Items(k) = 1

\* two processes raced on one url: one inserted, the other hit the unique index
C1_Witness ==
    /\ xrace
    /\ Quiescent
    /\ Items("A") = 1
    /\ \E t \in Threads : status[t] = "duplicate" /\ via[t] = "index"
                          /\ article[t].url = "A"

\* C2: N submissions of one item, one after the other, to the empty store with
\* no storage failure give one 'success' and N-1 'duplicate'; then seen_count is
\* N, the statistics report 1 item and N-1 duplicates, and is_duplicate is true.
C2_IdempotentClassification ==
    (Quiescent /\ faults = 0 /\ crashes = 0 /\ ~xrace) =>
        \A k \in Keys :
            Returned(k) >= 1 =>
                /\ outcomes[k].success = 1
                /\ outcomes[k].duplicate = Returned(k) - 1
                /\ SeenCount(k) = Returned(k)
                /\ IsDuplicate(k)
                /\ Returned(k) = calls =>
                       /\ GetDatabaseStats.total_articles = 1
                       /\ GetDatabaseStats.total_duplicates = Returned(k) - 1

\* the scenario of test_deduplication: the item submitted twice
C2_Witness ==
    /\ Quiescent /\ faults = 0 /\ crashes = 0 /\ ~xrace
    /\ outcomes["A"].success = 1
    /\ outcomes["A"].duplicate = 1
    /\ SeenCount("A") = 2
    /\ calls = 2

\* C3: with the callers in different processes and no storage failure, of the
\* calls that submit one url exactly one returns 'success' and every other one
\* 'duplicate'; none returns 'error', whatever the interleaving.
C3_RaceResolution ==
    (proc["t1"] # proc["t2"] /\ faults = 0 /\ crashes = 0) =>
        \A k \in Keys :
            /\ outcomes[k].success <= 1
            /\ outcomes[k].error = 0
            /\ (Quiescent /\ Returned(k) >= 1) =>
                   /\ outcomes[k].success = 1
                   /\ outcomes[k].duplicate = Returned(k) - 1

\* both processes passed the ledger check before either inserted
C3_Witness ==
    /\ proc["t1"] # proc["t2"] /\ faults = 0 /\ crashes = 0
    /\ Quiescent
    /\ outcomes["B"].success = 1
    /\ outcomes["B"].duplicate = 1
    /\ \E t \in Threads : status[t] = "duplicate" /\ via[t] = "index"


\* C4: a Submit whose item has no uniqueness key returns the error status with
\* reason 'missing_url' (articles) or 'missing_id' (tweets); it writes nothing
\* to the Item Store, the ledger, the statistics register or the blob store,
\* and it never acquires the store lock.
C4_MissingKeyRejected ==
    /\ [](\A t \in Threads :
            /\ (article[t].url = NoKey /\ status[t] # "none") =>
                    /\ status[t] = "error"
                    /\ reason[t] = "missing_url"
                    /\ pc[t] = "idle"
                    /\ wrote[t] = {}
                    /\ lock[ProcOf(t)] # t
            /\ (tweet[t].tweet_id = NoId /\ tweet[t].id = NoId /\ tstatus[t] # "none") =>
                    /\ tstatus[t] = "error"
                    /\ treason[t] = "missing_id"
                    /\ tpc[t] = "idle"
                    /\ twrote[t] = {}
                    /\ tlock[ProcOf(t)] # t)
    /\ [][/\ (calls' = calls + 1 /\ pc' = pc) =>
                UNCHANGED <<aux, articles, seen, stats, runs, lock, tweets,
                            twitter_stats, gridfs, tlock>>
          /\ (tcalls' = tcalls + 1 /\ tpc' = tpc) =>
                UNCHANGED <<aux, articles, seen, stats, runs, lock, tweets,
                            twitter_stats, gridfs, tlock>>]_vars

\* an article without url and a tweet without id, the tweet carrying a media
\* file, have been rejected while an article is stored
C4_Witness ==
    /\ articles # <<>>
    /\ \E t \in Threads :
        article[t].url = NoKey /\ status[t] = "error" /\ reason[t] = "missing_url"
    /\ \E t \in Threads :
        /\ tweet[t].tweet_id = NoId /\ tweet[t].id = NoId /\ tweet[t].media # NoMedia
        /\ tstatus[t] = "error" /\ treason[t] = "missing_id"
    /\ gridfs = <<>>

\* ------------------------------------------------------------------ batch claims
\* add_articles_batch has returned its 'results'
BatchReturned == batch.by \in Threads /\ ~batch.running

NumOuts(st) == Cardinality({j \in 1..Len(batch.outs) : batch.outs[j].status = st})
NumInserted == Cardinality({j \in 1..Len(batch.outs) : batch.outs[j].inserted})

\* the urls of the first n articles of the batch whose call returned 'duplicate'
RECURSIVE DuplicateUrls(_)
DuplicateUrls(n) ==
    IF n = 0 THEN <<>>
    ELSE IF batch.outs[n].status = "duplicate"
         THEN Append(DuplicateUrls(n - 1), batch.items[n].url)
         ELSE DuplicateUrls(n - 1)

\* C11 as claimed: for every list, the returned 'results' has total = number of
\* articles given, added + duplicates + errors = total, added = number of
\* items the batch inserted, and duplicate_urls = the urls of the calls that
\* returned 'duplicate', in submission order.
C11_BatchAccounting ==
    BatchReturned =>
        /\ batch.results.total = Len(batch.items)
        /\ Len(batch.outs) = Len(batch.items)
        /\ batch.results.added + batch.results.duplicates + batch.results.errors
              = batch.results.total
        /\ batch.results.added = NumInserted
        /\ batch.results.duplicate_urls = DuplicateUrls(Len(batch.items))

\* C12 as claimed: every article of a returned batch that has no url, or whose
\* call met a storage failure at any step, is counted in errors.
C12_FailureCounted ==
    BatchReturned =>
        /\ Len(batch.outs) = Len(batch.items)
        /\ \A j \in 1..Len(batch.outs) :
              (batch.items[j].url = NoKey \/ batch.outs[j].faulted) =>
                  batch.outs[j].status = "error"

\* C12 amended: a returned batch has called add_article for every article of
\* the list; errors counts exactly the calls that returned 'error'; a call
\* returns 'error' only for a missing url or a storage failure, and always for
\* a missing url; and whatever failed before it, a call that returned 'success'
\* inserted its item and a call that returned 'duplicate' inserted nothing and
\* its url is stored or in the ledger.
C12_FailIndependent ==
    BatchReturned =>
        /\ Len(batch.outs) = Len(batch.items)
        /\ batch.results.errors = NumOuts("error")
        /\ batch.results.added = NumOuts("success")
        /\ batch.results.duplicates = NumOuts("duplicate")
        /\ \A j \in 1..Len(batch.outs) :
              /\ batch.items[j].url = NoKey => batch.outs[j].status = "error"
              /\ batch.outs[j].status = "error" =>
                    batch.items[j].url = NoKey \/ batch.outs[j].faulted
              /\ batch.outs[j].status = "success" => batch.outs[j].inserted
              /\ batch.outs[j].status = "duplicate" =>
                    /\ ~batch.outs[j].inserted
                    /\ \/ HasUrl(articles, batch.items[j].url)
                       \/ HasUrl(seen, batch.items[j].url)

\* a batch of two whose first call failed on a storage failure and was counted
\* in errors, and whose second call was classified
C12_Witness ==
    /\ BatchReturned
    /\ Len(batch.items) = 2
    /\ batch.outs[1].status = "error" /\ batch.outs[1].faulted
    /\ batch.outs[2].status \in {"success", "duplicate"}
    /\ batch.results.errors = 1

\* -------------------------------------------------------------------- blob claims
\* C13 as claimed: uploads made one after the other, never two at a time, return
\* one and the same file id for the same bytes, whatever the filename or tweet
\* id, and leave a single stored file with those bytes.
C13_ContentDedup ==
    ~overlap =>
        \A c \in Contents : Cardinality(refs[c]) <= 1 /\ Blobs(gridfs, c) <= 1

\* C14 as claimed: whatever the interleaving of the uploads of the entry
\* points, no two stored files have the same bytes. Stated here for a driver
\* that writes the md5 field, where the lookup of line 393 can find a file.
C14_BlobUniqueness ==
    driverMd5 => \A c \in Contents : Blobs(gridfs, c) <= 1

\* an upload that has returned after its find_one matched a stored file
Reused(u) == uploads[u].pc = "idle" /\ uploads[u].found

\* C15 as claimed: at every entry point, an upload whose digest is found in the
\* store writes nothing, returns the id of the stored file, and has added
\* exactly 1 to the 'duplicates detected' counter.
C15_DuplicateCounted ==
    \A u \in Uploaders :
        Reused(u) =>
            /\ ~uploads[u].put
            /\ uploads[u].duplicates_detected = uploads[u].before + 1

\* C15 amended: an upload whose find_one matches writes nothing and returns
\* the id of a stored file with the same bytes; MediaUploader and
\* SimpleMediaUploader add exactly 1 to duplicates_detected, and
\* TwitterMongoManager.upload_media_file counts nothing.
C15_FoundIsReused ==
    \A u \in Uploaders :
        Reused(u) =>
            /\ ~uploads[u].put
            /\ uploads[u].ref \in 1..Len(gridfs)
            /\ gridfs[uploads[u].ref].content = uploads[u].content
            /\ uploads[u].duplicates_detected =
                  uploads[u].before + (IF u \in Counting THEN 1 ELSE 0)

\* an upload has found the bytes of its file stored under another tag
C15_Witness ==
    /\ Len(gridfs) = 1
    /\ \E u \in Uploaders :
        /\ Reused(u)
        /\ uploads[u].ref = 1
        /\ gridfs[1].tweet_id # uploads[u].tag

\* C16 as claimed: what get_media_file returns for a reference that is not in
\* the store differs from what it returns, in the same store, for a malformed
\* reference and for a storage failure; serve_media_from_gridfs likewise.
C16_TypedNotFound ==
    got.cause = "absent" =>
        \A ref \in FileRefs, fails \in BOOLEAN :
            GetCause(gridfs, ref, fails) \in {"malformed", "storage"} =>
                /\ GetMediaFile(gridfs, ref, fails) # got.result
                /\ ServeMediaFromGridfs(gridfs, ref, fails)
                      # ServeMediaFromGridfs(gridfs, got.ref, FALSE)

\* C31 as claimed: the file an upload has written holds bytes whose digest is
\* the digest the upload looked up before writing, also when the source file
\* was rewritten between the two reads.
C31_StoredMatchesChecked ==
    \A u \in Uploaders :
        (uploads[u].pc = "idle" /\ uploads[u].put) =>
            Md5(gridfs[uploads[u].ref].content) = Md5(uploads[u].content)

\* --------------------------------------------------------------------- run claims
\* the counters and the status of run i are the same before and after the step
RunKept(i) ==
    /\ runs'[i].articles_scraped = runs[i].articles_scraped
    /\ runs'[i].duplicates_found = runs[i].duplicates_found
    /\ runs'[i].errors = runs[i].errors
    /\ runs'[i].status = runs[i].status

\* C17 as claimed: an update_scraper_run call on a run that end_scraper_run
\* has ended leaves the three counters and the status of the run unchanged.
C17_ClosedRunRejectsUpdate ==
    [][\A i \in 1..Len(runs) :
          (runOps' = runOps + 1 /\ runOp'.op = "update" /\ runOp'.id = i
              /\ runs[i].ended) => RunKept(i)]_vars

\* C18 as claimed: once the status of a run is 'completed' or 'failed', no
\* step changes it.
C18_TerminalStatusKept ==
    [][\A i \in 1..Len(runs) :
          runs[i].status \in FinalStatuses => runs'[i].status = runs[i].status]_vars

\* C19: no step lowers a counter of a run, whatever the sign of the arguments
\* of update_scraper_run, and a run starts with its three counters at 0.
C19_CountersMonotone ==
    [][/\ \A i \in 1..Len(runs) :
            /\ runs'[i].articles_scraped >= runs[i].articles_scraped
            /\ runs'[i].duplicates_found >= runs[i].duplicates_found
            /\ runs'[i].errors >= runs[i].errors
       /\ Len(runs') >= Len(runs)
       /\ \A i \in (Len(runs) + 1)..Len(runs') :
            /\ runs'[i].articles_scraped = 0
            /\ runs'[i].duplicates_found = 0
            /\ runs'[i].errors = 0]_vars

\* a run whose counters have grown has just been updated with a negative
\* argument and no positive one
C19_Witness ==
    /\ runOp.op = "update" /\ runOp.negative /\ ~runOp.positive
    /\ runOp.id \in 1..Len(runs)
    /\ runs[runOp.id].articles_scraped > 0
    /\ runs[runOp.id].errors > 0

C22_SnapshotCounts ==
    [][(lastRead'.seq # lastRead.seq /\ lastRead'.op = "get_database_stats") =>
          lastRead'.result.total_articles = Items("A") + Items("B")]_vars

\* get_database_stats has reported two items while the stats collection had no
\* document or one that had missed an update
C22_Witness ==
    /\ lastRead.op = "get_database_stats"
    /\ lastRead.result.total_articles = 2
    /\ lastRead.result.sources["X"].articles = 0
    /\ lastRead.result.sources["Y"].articles = 0

\* the urls of the documents of a collection or a list
UrlsOf(coll) == {coll[i].url : i \in 1..Len(coll)}

C24_IncrementsAdd ==
    /\ StatsDoc(stats).total_articles = applied.articles
    /\ StatsDoc(stats).total_duplicates = applied.duplicates
    /\ StatsDoc(stats).total_scraper_runs = applied.runs
    /\ \A s \in Sources :
          /\ StatsDoc(stats).sources[s].articles = applied.by_source[s]
          /\ StatsDoc(stats).sources[s].duplicates = 0

\* two processes were in add_article together and the register has the
\* increments of both
C24_Witness ==
    /\ xrace
    /\ StatsDoc(stats).total_articles = 2
    /\ StatsDoc(stats).sources["X"].articles = 1
    /\ StatsDoc(stats).sources["Y"].articles = 1

\* the number of items the store held right after the insert of url k: nothing
\* is ever deleted, so it is the position of the item in insertion order
CountAfterInsert(k) == FirstMatch(articles, k)

\* C25 as claimed: the total_articles of a 'success' is the number of items
\* stored right after the call's own insert, also with other processes
\* submitting other urls at the same time.
C25_TotalAfterInsert ==
    \A t \in Threads :
        status[t] = "success" => total[t] = CountAfterInsert(article[t].url)

\* C25 amended: the total_articles of a 'success' is the number of items
\* stored when the call counts them (line 202), after its ledger write and
\* stats update: never less than the number right after its own insert, never
\* more than the number stored now, and equal to the number right after its
\* insert when no two processes have been inside add_article together.
C25_TotalAtCount ==
    \A t \in Threads :
        status[t] = "success" =>
            /\ HasUrl(articles, article[t].url)
            /\ total[t] >= CountAfterInsert(article[t].url)
            /\ total[t] <= Len(articles)
            /\ ~xrace => total[t] = CountAfterInsert(article[t].url)

\* a call inserted the first item and returned a total of 2: another process
\* inserted its item before the call counted
C25_Witness ==
    \E t \in Threads :
        /\ status[t] = "success"
        /\ CountAfterInsert(article[t].url) = 1
        /\ total[t] = 2

\* C27: a call whose ledger check (line 178) finds the url goes to
\* _track_duplicate and returns 'duplicate'; it attempts no insert, writes
\* nothing to the articles collection, and the submitted dictionary gets no
\* 'scraped_at'.
C27_FastPath ==
    /\ [](\A t \in Threads :
            via[t] = "ledger" =>
                /\ pc[t] \in {"track", "dstats", "idle"}
                /\ "articles" \notin wrote[t]
                /\ article[t].scraped_at = NoStamp
                /\ (pc[t] = "idle" /\ status[t] # "crashed") =>
                       status[t] = "duplicate")
    /\ [][\A t \in Threads :
            (/\ pc[t] = "check"
             /\ pc'[t] \notin {"check", "idle"}
             /\ \E i \in 1..Len(seen) : seen[i].url = article[t].url) =>
                /\ via'[t] = "ledger"
                /\ pc'[t] = "track"
                /\ articles' = articles
                /\ article'[t] = article[t]]_vars

\* a url was accepted from one caller, whose dictionary was stamped, and then
\* refused on the ledger with the second caller's dictionary left as it was
C27_Witness ==
    \E t \in Threads, o \in Threads :
        /\ status[t] = "duplicate" /\ via[t] = "ledger" /\ pc[t] = "idle"
        /\ article[t].scraped_at = NoStamp
        /\ status[o] = "success" /\ article[o].url = article[t].url
        /\ article[o].scraped_at # NoStamp
        /\ Len(articles) = 1

\* thread t is inside the 'with self.lock:' block of add_article
InCritical(t) ==
    pc[t] \in {"check", "insert", "seen", "stats", "count", "track", "dstats"}

\* C28: two threads of one process are never both between the ledger check
\* and the return of add_article; while one is there, the other does nothing
\* in add_article but start a call, which returns at the url test (lines
\* 169-173) or arrives at the lock.
C28_Serialized ==
    /\ [](\A t \in Threads, u \in Threads :
            (t # u /\ ProcOf(t) = ProcOf(u)) => ~(InCritical(t) /\ InCritical(u)))
    /\ [](\A t \in Threads : InCritical(t) => lock[ProcOf(t)] = t)
    /\ [][\A t \in Threads, u \in Threads :
            (t # u /\ ProcOf(t) = ProcOf(u) /\ InCritical(t) /\ pc'[t] # "idle") =>
                \/ pc'[u] = pc[u] /\ article'[u] = article[u] /\ wrote'[u] = wrote[u]
                \/ pc[u] = "idle" /\ pc'[u] \in {"idle", "lock"}]_vars

\* one thread has inserted its item and not yet returned; the other thread
\* of the process waits at the lock with the same url
C28_Witness ==
    /\ proc["t1"] = proc["t2"]
    /\ \E t \in Threads, u \in Threads :
        /\ pc[t] = "stats"
        /\ pc[u] = "lock"
        /\ article[t].url = article[u].url

\* ------------------------------------------------------------------- lock claims
\* thread t waits to enter a 'with self.lock:' block of the MongoDBManager
WaitsForLock(t) == pc[t] \in {"lock", "rlock"}

\* C29: no thread waits for a lock it holds, of the MongoDBManager or of the
\* TwitterMongoManager; a thread holds a lock only while it is inside the
\* 'with' block of the one method it called.
C29_NoSelfDeadlock ==
    \A t \in Threads :
        /\ WaitsForLock(t) => lock[ProcOf(t)] # t
        /\ tpc[t] = "lock" => tlock[ProcOf(t)] # t
        /\ lock[ProcOf(t)] = t => pc[t] \notin {"idle", "lock", "rlock"}
        /\ tlock[ProcOf(t)] = t => tpc[t] \notin {"idle", "lock"}

\* a thread is at the lock of is_duplicate while the other thread of the
\* process is inside add_article, past its ledger check, and a third call is
\* inside add_tweet under the other lock
C29_Witness ==
    \E t \in Threads, u \in Threads :
        /\ pc[t] = "track"
        /\ lock[ProcOf(t)] = t
        /\ pc[u] = "rlock"

\* C30: every add_article, is_duplicate and add_tweet call that has started
\* returns: the lock it took is free again after a 'success', a 'duplicate',
\* an 'error' and a storage exception alike, so the calls waiting for it get it.
EveryCallReturns ==
    /\ \A t \in Threads : (pc[t] # "idle") ~> (pc[t] = "idle")
    /\ \A t \in Threads : (tpc[t] # "idle") ~> (tpc[t] = "idle")
    /\ [](\A t \in Threads :
            /\ pc[t] = "idle" => (lock[ProcOf(t)] # t /\ status[t] # "pending")
            /\ tpc[t] = "idle" => (tlock[ProcOf(t)] # t /\ tstatus[t] # "pending"))

C32_TweetsReferMappedFiles ==
    (/\ script.pc = "done"
     /\ script.kind = "MediaUploader"
     /\ ~script.dry_run
     /\ script.mappings["m"] # NoFile)
        => \E i \in 1..Len(tweets) :
              /\ tweets[i].tweet_id = "T"
              /\ tweets[i].media_files_gridfs = script.mappings["m"]

\* C40: in a dry run files_found is the number of files scanned and the other
\* counters are 0, the script has put no file, has not called
\* add_tweets_batch, and its thread has written nothing through add_tweet.
C40_DryRunWritesNothing ==
    script.dry_run =>
        /\ script.stats = [ZeroUploadStats EXCEPT !.files_found = Len(script.files)]
        /\ script.wrote = {}
        /\ script.pc # "put"
        /\ tbatch = NoTweetBatch
        /\ twrote[ScriptThread] = {}
        /\ tpc[ScriptThread] = "idle"

\* a dry run over two files has ended: both got "dry_run_id"
C40_Witness ==
    /\ script.dry_run
    /\ script.pc = "done"
    /\ script.stats.files_found = 2
    /\ \E c \in Contents : script.mappings[c] = DryRunId

\* C33: a call that returns 'duplicate' has written neither the tweets
\* collection nor the twitter stats register; at most one tweet is stored under
\* an id and at most one call for it returns 'success'; when every call has
\* returned and none raised, N calls with the id gave one 'success', N-1
\* 'duplicate', and the register counts one tweet.
C33_TweetDedup ==
    /\ \A t \in Threads :
           (tpc[t] = "idle" /\ tstatus[t] = "duplicate")
               => twrote[t] \cap {"tweets", "twitter_stats"} = {}
    /\ \A i, j \in 1..Len(tweets) : tweets[i].tweet_id = tweets[j].tweet_id => i = j
    /\ touts.success <= 1
    /\ ((\A t \in Threads : tpc[t] = "idle") /\ touts.error = 0
           /\ touts.success + touts.duplicate > 0)
          => /\ touts.success = 1
             /\ Len(tweets) = 1
             /\ tweets[1].tweet_id = "T"
             /\ twitter_stats[1].total_tweets = 1

\* a batch of two tweets with the same id and a call of the other thread with
\* it have all returned: one 'success' and two 'duplicate'
C33_Witness ==
    /\ \A t \in Threads : tpc[t] = "idle"
    /\ ~tbatch.running /\ tbatch.by # "nobody"
    /\ touts = [success |-> 1, duplicate |-> 2, error |-> 0]
    /\ tbatch.results.added + tbatch.results.duplicates = 2
    /\ Len(tweets) = 1

\* C38: a call that has returned 'duplicate' or 'error' has written no file
\* to GridFS.
C38_NoBlobUnlessSuccess ==
    \A t \in Threads :
        (tpc[t] = "idle" /\ tstatus[t] \in {"duplicate", "error"})
            => "gridfs" \notin twrote[t]

\* C39 as stated: the constructor runs at most once.
C39_ConstructorRunsOnce == single.runs <= 1

\* C39: whatever the interleaving of the calls, at most one manager is ever
\* constructed, a call that returns returns that manager, and only one thread
\* at a time is between the second test and the assignment.
C39_OneInstance ==
    /\ single.built <= 1
    /\ single.instance \in {0, 1}
    /\ \A t \in Threads :
        /\ single.pc[t] = "idle" /\ single.gets > 0 /\ single.got[t] # 0
               => single.got[t] = 1 /\ single.instance = 1
        /\ single.pc[t] = "return" => single.instance = 1
        /\ single.pc[t] \in {"retest", "construct"} => single.lock = t

\* both threads found _instance None at the first test and went to the lock;
\* both have returned the same manager
C39_Witness ==
    /\ single.built = 1
    /\ \A t \in Threads :
        single.pc[t] = "idle" /\ single.waited[t] /\ single.got[t] = 1

\* ------------------------------------------------------------------ ledger claims
\* the SeenEntry of url k in the ledger coll
EntryOf(coll, k) == coll[FirstMatch(coll, k)]

\* C21: an _add_to_seen_urls call for a url that has a SeenEntry raises nothing
\* and leaves the ledger as it was: the entry keeps its first_seen, last_seen
\* and seen_count, and stays the only entry for the url.
C21_RecordIdempotent ==
    [][(rec' # rec /\ HasUrl(seen, rec'.url)) =>
          /\ ~rec'.raised
          /\ seen' = seen
          /\ CountUrl(seen', rec'.url) = 1]_vars

\* _add_to_seen_urls was called for a url whose entry had been written and
\* updated by a duplicate before: the entry still has its older last_seen
C21_Witness ==
    /\ rec.had
    /\ HasUrl(seen, rec.url)
    /\ EntryOf(seen, rec.url).seen_count = 2
    /\ EntryOf(seen, rec.url).last_seen < rec.at

\* C26 as claimed: when a call returns 'success' for url k, the ledger holds a
\* SeenEntry for k with seen_count = 1 and first_seen = last_seen.
C26_AcceptedEntry ==
    [][\A t \in Threads :
          (status'[t] = "success" /\ status[t] # "success") =>
              /\ HasUrl(seen', article[t].url)
              /\ EntryOf(seen', article[t].url).seen_count = 1
              /\ EntryOf(seen', article[t].url).first_seen
                    = EntryOf(seen', article[t].url).last_seen]_vars

\* C35: in every state, with crashes at every point of add_article and with
\* storage failures, a url that has a SeenEntry has its item stored, and an
\* entry is only ever added for a url whose item is already stored.
C35_OneWayLedger ==
    /\ [](\A i \in 1..Len(seen) : CountUrl(articles, seen[i].url) >= 1)
    /\ [][\A k \in Keys :
            (~HasUrl(seen, k) /\ HasUrl(seen', k)) =>
                (HasUrl(articles, k) /\ articles' = articles)]_vars

\* the process was killed between the insert and the ledger write of a call:
\* the item is stored, its entry is not, and the other url has both
C35_Witness ==
    \E t \in Threads :
        /\ status[t] = "crashed"
        /\ "articles" \in wrote[t]
        /\ HasUrl(articles, article[t].url)
        /\ ~HasUrl(seen, article[t].url)
        /\ \E k \in Keys : k # article[t].url /\ HasUrl(seen, k)

\* the occurrences after the first that the ledger has counted
RECURSIVE Repeats(_)
Repeats(coll) ==
    IF coll = <<>> THEN 0 ELSE (Head(coll).seen_count - 1) + Repeats(Tail(coll))

\* all callers are threads of one process, none was killed, no call raised
OneProcessNoFailure ==
    proc["t1"] = proc["t2"] /\ crashes = 0 /\ faults = 0

\* C36 as claimed: in every state of such an execution total_duplicates of
\* the register equals the sum of seen_count - 1 over the ledger, and every
\* seen_count is at least 1.
C36_DuplicatesAgree ==
    OneProcessNoFailure =>
        /\ StatsDoc(stats).total_duplicates = Repeats(seen)
        /\ \A i \in 1..Len(seen) : seen[i].seen_count >= 1

\* C36 amended: the two agree in every state in which no call is between the
\* ledger update of _track_duplicate (lines 285-291) and its register update
\* (line 294); in between the ledger is one ahead.
C36_DuplicatesAgreeBetweenCalls ==
    OneProcessNoFailure =>
        /\ (\A t \in Threads : pc[t] # "dstats") =>
               StatsDoc(stats).total_duplicates = Repeats(seen)
        /\ (\E t \in Threads : pc[t] = "dstats") =>
               StatsDoc(stats).total_duplicates + 1 = Repeats(seen)
        /\ \A i \in 1..Len(seen) : seen[i].seen_count >= 1

\* one url submitted twice in one process: one repeat in both
C36_Witness ==
    /\ OneProcessNoFailure
    /\ Quiescent
    /\ Repeats(seen) = 1
    /\ StatsDoc(stats).total_duplicates = 1

\* C37 as claimed: when the calls of separate processes for one url have all
\* returned, seen_count of its entry is the number of those calls.
C37_NoOccurrenceLost ==
    (proc["t1"] # proc["t2"] /\ crashes = 0 /\ faults = 0 /\ Quiescent) =>
        \A k \in Keys : Returned(k) >= 1 => SeenCount(k) = Returned(k)

\* C34 as claimed: whatever the interleaving of the _initialize_stats of the
\* processes and of the upserting increments, the stats collection holds at
\* most one document.
C34_StatsSingleton == Len(stats) <= 1

\* C5 as claimed: between calls, crashes and storage failures included, a
\* SeenEntry exists for a url exactly when an item with that url is stored.
C5_LedgerIffItem ==
    Quiescent => \A k \in Keys : HasUrl(seen, k) <=> HasUrl(articles, k)

\* C5 amended: a SeenEntry exists only for a stored item, in every state; and
\* as long as no process crashed and no storage call raised, every stored item
\* has its SeenEntry once the inserting call is past its ledger write.
C5_LedgerOnlyForItems ==
    \A k \in Keys :
        /\ HasUrl(seen, k) => HasUrl(articles, k)
        /\ (crashes = 0 /\ faults = 0 /\ HasUrl(articles, k))
               => (HasUrl(seen, k)
                   \/ \E t \in Threads : pc[t] = "seen" /\ article[t].url = k)

\* after a crash: a stored item without an entry beside one with its entry
C5_Witness ==
    /\ crashes = 1
    /\ Quiescent
    /\ HasUrl(articles, "A") /\ ~HasUrl(seen, "A")
    /\ HasUrl(articles, "B") /\ HasUrl(seen, "B")

\* C6 as claimed: a call that returns 'error' for a storage failure has written
\* nothing to the articles, the ledger or the register.
C6_ErrorLeavesNoTrace ==
    \A t \in Threads :
        (status[t] = "error" /\ reason[t] = "storage") => wrote[t] = {}

\* C7: a call that starts when the item is stored and its SeenEntry is lost,
\* and whose own storage calls succeed, returns 'duplicate' by the unique index
\* of the articles; the collection keeps exactly one item with the url.
C7_SelfHealing ==
    \A t \in Threads :
        orphanAtCall[t] =>
            /\ Items(article[t].url) = 1
            /\ pc[t] \notin {"seen", "stats", "count"}
            /\ (pc[t] = "idle" /\ status[t] # "crashed" /\ ~faulted[t]) =>
                   (status[t] = "duplicate" /\ via[t] = "index")

\* a submission after the entry was lost was classified by the index
C7_Witness ==
    \E t \in Threads :
        /\ orphanAtCall[t]
        /\ pc[t] = "idle"
        /\ status[t] = "duplicate"
        /\ via[t] = "index"
        /\ ~HasUrl(seen, article[t].url)

\* C8 as claimed: between operations, unless a process crashed, total_articles
\* of the stats document equals the number of stored items.
C8_RegisterEqualsCount ==
    (Quiescent /\ crashes = 0) => StatsDoc(stats).total_articles = Len(articles)

\* C8 amended: between operations, unless a process crashed, total_articles
\* falls short of the number of stored items by exactly the number of stats
\* updates that raised (and were dropped by _update_stats).
C8_RegisterCountsItems ==
    (Quiescent /\ crashes = 0) =>
        StatsDoc(stats).total_articles + lostStats = Len(articles)

\* an item stored and a run started, the register in step
C8_Witness ==
    /\ Quiescent /\ crashes = 0
    /\ Len(articles) = 1
    /\ StatsDoc(stats).total_articles = 1
    /\ StatsDoc(stats).total_scraper_runs = 1

\* C9 as claimed: a call that returns 'duplicate' (its storage calls having
\* succeeded) has added 1 to total_duplicates and 1 to the duplicates counter
\* of the item's source, and nothing to an item counter.
C9_DuplicateCounted ==
    \A t \in Threads :
        (status[t] = "duplicate" /\ ~faulted[t]) =>
            delta[t] = DuplicateDiff(article[t].website_name)

\* C10 as claimed: every call that returns 'success' has added 1 to
\* total_articles and to the articles counter of its source, nothing else.
C10_AcceptedCounted ==
    \A t \in Threads :
        status[t] = "success" => delta[t] = AcceptedDiff(article[t].website_name)

\* C10 amended: a call that returns 'success' has added exactly 1 to
\* total_articles and to the articles counter of its source (no counter when it
\* has no source) and nothing else, unless its stats update raised: then it
\* has added nothing.
C10_AcceptedCountedUnlessRaised ==
    \A t \in Threads :
        status[t] = "success" =>
            /\ "stats" \in wrote[t] \/ faulted[t]
            /\ delta[t] = IF "stats" \in wrote[t]
                          THEN AcceptedDiff(article[t].website_name)
                          ELSE ZeroDiff

\* an item of source Y accepted while the register already counts source X
C10_Witness ==
    \E t \in Threads :
        /\ status[t] = "success"
        /\ article[t].website_name = "Y"
        /\ delta[t].sources["Y"].articles = 1
        /\ StatsDoc(stats).sources["X"].articles = 1

====
